---- MODULE Spec2Model ----
(***************************************************************************)
(* Model of the approval workflow of SMARTFIX Tool Enforcement             *)
(* (src/src/core/authorization_manager.py, class AuthorizationManager).    *)
(*                                                                         *)
(* Time is counted in whole seconds since the manager was constructed.     *)
(* datetime.now() and time.time() read the same clock, which is taken to   *)
(* be monotonic.  isoformat()/fromisoformat() round-trip a naive datetime  *)
(* without loss, so a stored timestamp is modelled by the instant itself.  *)
(*                                                                         *)
(* Python objects live in heap, a function from object identities to the   *)
(* record dicts.  The dict pending_approvals keeps insertion order; it is  *)
(* the sequence of its items [key, ref] in that order, ref being the       *)
(* identity of the record dict stored under key.  Assigning to an existing *)
(* key keeps the key's place and changes its ref.  An object nothing       *)
(* refers to any more is dropped from heap.                                *)
(***************************************************************************)
EXTENDS Integers, Sequences, FiniteSets, TLC

VARIABLES
    pending_approvals,  \* self.pending_approvals, in insertion order
    heap,               \* the record dicts, by object identity
    now,                \* the clock read by datetime.now() / time.time()
    allocated,          \* number of record objects created so far
    last,               \* the last completed call: its name op, its id
                        \* argument arg and its return value, held in the
                        \* field of its type: ids (request_approval: the id
                        \* returned, none if it raised; the sweep: the ids
                        \* returned), status (check_approval_status) or ok
                        \* (process_approval_response); raised says that
                        \* the call ended in an exception instead
    sent,               \* sender invocations of the last request_approval
    hist,               \* history of the calls: the ids on which a response
                        \* returned True (accepted), the ids returned by a
                        \* sweep (swept), the ids a status check turned from
                        \* pending to expired (lapsed)
    threads,            \* concurrent callers of process_approval_response,
                        \* of check_approval_status and of the sweep
    descriptors,        \* the repair descriptor dicts of the callers, by
                        \* object identity: what a record's repair_data
                        \* refers to
    _error_processor,   \* the singleton of get_error_processor: empty
                        \* until constructed, then <<the ErrorProcessor>>
    processed,          \* the last call of the classifier: its name op, its
                        \* arguments, whether it raised, the records returned
    seen,               \* history of the classifier: per (message, language)
                        \* pair classified so far, the outcomes it got, the
                        \* number of calls and whether another pair was
                        \* classified since its first call (between)
    agent,              \* the PythonMonitorAgent: its fields is_monitoring,
                        \* original_excepthook, performance_metrics (empty
                        \* or a sample) and thread (0 for None, else the
                        \* index in monitors of the thread it holds)
    sys_excepthook,     \* sys.excepthook
    monitors,           \* the threads created by the agent, in the order of
                        \* their creation: where each is in the function
                        \* performance_monitor
    caller              \* the thread that calls start_monitoring and
                        \* stop_monitoring: where it is in the call, the
                        \* name op of the call and what it returned

(* The variables of the approval workflow, those of the classifier and   *)
(* those of the monitoring agent                                          *)
workflow == <<pending_approvals, heap, now, allocated, last, sent, hist, threads,
              descriptors>>
classifier == <<_error_processor, processed, seen>>
monitoring == <<agent, sys_excepthook, monitors, caller>>

vars == <<pending_approvals, heap, now, allocated, last, sent, hist, threads,
          descriptors, _error_processor, processed, seen, agent, sys_excepthook,
          monitors, caller>>

----------------------------------------------------------------------------
(* Bounds of the model *)

MaxRequests == 2
MaxUid == 2
MaxHours == 2
MaxChannels == 3
MaxNotifyRequests == 1
MaxCallRequests == 1
MaxBatch == 2
MaxCalls == 1
MaxClassified == 2
MaxRepeat == 2
MaxStarts == 2

(* Program constants *)

SecondsPerHour == 3600

----------------------------------------------------------------------------
(* ApprovalStatus *)

PENDING == "pending"
APPROVED == "approved"
REJECTED == "rejected"
EXPIRED == "expired"
CANCELLED == "cancelled"

ApprovalStatus == {PENDING, APPROVED, REJECTED, EXPIRED, CANCELLED}

NOT_FOUND == "not_found"

(* The keys of self.notification_handlers *)
notification_handlers == {"email", "slack", "teams", "sms", "whatsapp"}

(* Senders whose body can raise: email (SMTP, settings) and slack (HTTP).   *)
(* teams, sms and whatsapp are empty bodies and always return.              *)
may_raise == {"email", "slack"}

----------------------------------------------------------------------------
(* Inputs *)

UidSet == 1..MaxUid
TimeoutSet == {-1, 0, 1}
(* repair_data is a dict of the caller, passed by reference: RepairSet are  *)
(* the identities of such dicts, Descriptor what one holds when its caller *)
(* built it, SolutionSet what the caller may later write into it           *)
RepairSet == {"repair"}
Descriptor == [type |-> "syntax_error", solution |-> "patch"]
SolutionSet == {"patch", "other patch"}
RecipientsSet == {<<>>, <<"a@x">>}
ChannelNames == {"email", "fax"}
ResponderSet == {"bob"}
CommentSet == {""}

RECURSIVE SeqsUpTo(_, _)
SeqsUpTo(S, n) ==
    IF n = 0 THEN {<<>>}
    ELSE LET shorter == SeqsUpTo(S, n - 1)
         IN  shorter \cup {Append(s, x) : s \in {t \in shorter : Len(t) = n - 1}, x \in S}

ChannelLists == SeqsUpTo(ChannelNames, MaxChannels)

(* channels: List[str] = ['email'] *)
DefaultChannels == <<"email">>

(* A decision is free text, or a value that is not text at all (isText     *)
(* FALSE), on which .lower() raises.  Text is a sequence of characters.     *)
Text(chars) == [isText |-> TRUE, chars |-> chars]
NotText == [isText |-> FALSE, chars |-> <<>>]

APPROVE == <<"a", "p", "p", "r", "o", "v", "e">>

DecisionSet ==
    { Text(APPROVE),
      Text(<<"A", "p", "p", "r", "o", "v", "E">>),
      Text(<<"r", "e", "j", "e", "c", "t">>),
      NotText }

(* The decisions of DecisionSet and further texts: 'approve' in upper case, *)
(* texts that only resemble it, and the empty text                          *)
DecisionTexts ==
    DecisionSet \cup
    { Text(<<"A", "P", "P", "R", "O", "V", "E">>),
      Text(<<"a", "p", "p", "r", "o", "v", "e", "d">>),
      Text(<<"Y", "e", "s">>),
      Text(<<>>) }

(* str.lower() on the characters used *)
UpperToLower ==
    ("A" :> "a") @@ ("B" :> "b") @@ ("C" :> "c") @@ ("D" :> "d") @@ ("E" :> "e") @@
    ("F" :> "f") @@ ("G" :> "g") @@ ("H" :> "h") @@ ("I" :> "i") @@ ("J" :> "j") @@
    ("K" :> "k") @@ ("L" :> "l") @@ ("M" :> "m") @@ ("N" :> "n") @@ ("O" :> "o") @@
    ("P" :> "p") @@ ("Q" :> "q") @@ ("R" :> "r") @@ ("S" :> "s") @@ ("T" :> "t") @@
    ("U" :> "u") @@ ("V" :> "v") @@ ("W" :> "w") @@ ("X" :> "x") @@ ("Y" :> "y") @@
    ("Z" :> "z")

lower(chars) ==
    [i \in DOMAIN chars |->
        IF chars[i] \in DOMAIN UpperToLower THEN UpperToLower[chars[i]] ELSE chars[i]]

(* A character in lower case *)
LowerOf(c) == IF c \in DOMAIN UpperToLower THEN UpperToLower[c] ELSE c

(* Two characters are the same letter, whatever their case *)
SameLetter(a, b) == a = b \/ LowerOf(a) = LowerOf(b)

(* Two texts are equal when compared case-insensitively *)
EqualsIgnoreCase(x, y) ==
    /\ Len(x) = Len(y)
    /\ \A i \in DOMAIN x : SameLetter(x[i], y[i])

----------------------------------------------------------------------------
(* dict operations on pending_approvals *)

Keys(store) == {store[i].key : i \in DOMAIN store}

Has(store, id) == id \in Keys(store)

IndexOf(store, id) == CHOOSE i \in DOMAIN store : store[i].key = id

(* store[id] *)
Ref(store, id) == store[IndexOf(store, id)].ref

(* The store replaced by a dict holding the new item alone: what was       *)
(* stored before is evicted                                                *)
PutAlone(store, id, ref) == <<[key |-> id, ref |-> ref]>>

(* store[id] = ref: a new key is appended, an existing key keeps its place *)
Put(store, id, ref) ==
    IF Has(store, id) THEN [store EXCEPT ![IndexOf(store, id)].ref = ref]
    ELSE Append(store, [key |-> id, ref |-> ref])

Refs(store) == {store[i].ref : i \in DOMAIN store}

(* The objects still referred to: by the dict or by a running call *)
Held(thr) ==
    {thr[t].approval :
        t \in {u \in DOMAIN thr : thr[u].pc \notin {"idle", "done", "returned"}}}

Collect(h, store, thr) ==
    [o \in (DOMAIN h) \cap (Refs(store) \cup Held(thr)) |-> h[o]]

----------------------------------------------------------------------------
(* _generate_approval_id: f"apr_{uuid.uuid4().hex[:8]}_{int(time.time())}" *)
(* uid is the 32-bit random prefix, t the clock in whole seconds.          *)
_generate_approval_id(uid, t) == <<uid, t>>

(* _is_expired comparing with >=: a request expires at its deadline *)
_is_expired_at_deadline(approval_record, t) == t >= approval_record.expires_at

(* _is_expired: datetime.now() > expires_at *)
_is_expired(approval_record, t) == t > approval_record.expires_at

----------------------------------------------------------------------------
(* Notification fan-out *)

(* _send_notifications with the try/except dropped: the first sender that  *)
(* raises ends the loop and the exception leaves the function.             *)
RECURSIVE SendUnguarded(_, _, _, _)
SendUnguarded(channels, fails, i, acc) ==
    IF i > Len(channels) THEN [sent |-> acc, raised |-> FALSE]
    ELSE IF channels[i] \in notification_handlers
         THEN IF fails[i]
              THEN [sent |-> Append(acc, [channel |-> channels[i], ok |-> FALSE]),
                    raised |-> TRUE]
              ELSE SendUnguarded(channels, fails, i + 1,
                                 Append(acc, [channel |-> channels[i], ok |-> TRUE]))
         ELSE SendUnguarded(channels, fails, i + 1, acc)

_send_notifications_unguarded(channels, fails) == SendUnguarded(channels, fails, 1, <<>>)

(* _send_notifications with the membership test dropped: a channel with no *)
(* registered sender raises KeyError outside the try and ends the loop.    *)
RECURSIVE SendUnchecked(_, _, _, _)
SendUnchecked(channels, fails, i, acc) ==
    IF i > Len(channels) THEN [sent |-> acc, raised |-> FALSE]
    ELSE IF channels[i] \in notification_handlers
         THEN SendUnchecked(channels, fails, i + 1,
                            Append(acc, [channel |-> channels[i], ok |-> ~fails[i]]))
         ELSE [sent |-> acc, raised |-> TRUE]

_send_notifications_unchecked(channels, fails) == SendUnchecked(channels, fails, 1, <<>>)

(* The loop of _send_notifications from position i on; acc is the log of   *)
(* sender invocations so far.  fails[i] says whether the sender invoked    *)
(* for position i raises.                                                  *)
RECURSIVE SendFrom(_, _, _, _)
SendFrom(channels, fails, i, acc) ==
    IF i > Len(channels) THEN [sent |-> acc, raised |-> FALSE]
    ELSE IF channels[i] \in notification_handlers
         THEN \* try: handler(record)  except Exception: logger.error(...)
              SendFrom(channels, fails, i + 1,
                       Append(acc, [channel |-> channels[i], ok |-> ~fails[i]]))
         ELSE SendFrom(channels, fails, i + 1, acc)

_send_notifications(channels, fails) == SendFrom(channels, fails, 1, <<>>)

(* The outcomes the senders of a channels list can have *)
FailPatterns(channels) ==
    {f \in [DOMAIN channels -> BOOLEAN] :
        \A i \in DOMAIN channels : f[i] => channels[i] \in may_raise}

----------------------------------------------------------------------------
(* The operations as functions of the store, the heap and the clock.  Each *)
(* yields the new heap (and store) and the value returned.                 *)

(* check_approval_status with the membership test replaced by a default:   *)
(* an id that is no key is reported as a pending request                    *)
CheckStatusDefault(store, h, approval_id, t) ==
    IF ~Has(store, approval_id)
    THEN [heap |-> h, ret |-> PENDING]
    ELSE LET approval == Ref(store, approval_id)
         IN  IF _is_expired(h[approval], t)
             THEN [heap |-> [h EXCEPT ![approval].status = EXPIRED], ret |-> EXPIRED]
             ELSE [heap |-> h, ret |-> h[approval].status]

(* check_approval_status *)
CheckStatus(store, h, approval_id, t) ==
    IF ~Has(store, approval_id)
    THEN [heap |-> h, ret |-> NOT_FOUND]
    ELSE LET approval == Ref(store, approval_id)
         IN  IF _is_expired(h[approval], t)
             THEN [heap |-> [h EXCEPT ![approval].status = EXPIRED], ret |-> EXPIRED]
             ELSE [heap |-> h, ret |-> h[approval].status]

(* process_approval_response with the response appended before the test of *)
(* the status instead of after it                                          *)
RespondAppendFirst(store, h, approval_id, responder, decision, comments, t) ==
    IF ~Has(store, approval_id)
    THEN [heap |-> h, ret |-> FALSE, raised |-> FALSE]
    ELSE LET approval == Ref(store, approval_id)
             response == [responder |-> responder,
                          decision |-> lower(decision.chars),
                          comments |-> comments,
                          timestamp |-> t]
             appended == [h EXCEPT ![approval].responses = Append(@, response)]
         IN  IF ~decision.isText
             THEN [heap |-> h, ret |-> FALSE, raised |-> FALSE]
             ELSE IF h[approval].status # PENDING
             THEN [heap |-> appended, ret |-> FALSE, raised |-> FALSE]
             ELSE [heap |-> [appended EXCEPT ![approval].status =
                                IF lower(decision.chars) = APPROVE
                                THEN APPROVED ELSE REJECTED],
                   ret |-> TRUE, raised |-> FALSE]

(* process_approval_response with the try/except dropped: the exception of *)
(* decision.lower() on a value that is not text leaves the method          *)
RespondUncaught(store, h, approval_id, responder, decision, comments, t) ==
    IF ~Has(store, approval_id)
    THEN [heap |-> h, ret |-> FALSE, raised |-> FALSE]
    ELSE LET approval == Ref(store, approval_id)
         IN  IF h[approval].status # PENDING
             THEN [heap |-> h, ret |-> FALSE, raised |-> FALSE]
             ELSE IF ~decision.isText
             THEN [heap |-> h, ret |-> FALSE, raised |-> TRUE]
             ELSE LET response == [responder |-> responder,
                                   decision |-> lower(decision.chars),
                                   comments |-> comments,
                                   timestamp |-> t]
                      appended == [h EXCEPT ![approval].responses = Append(@, response)]
                  IN  [heap |-> [appended EXCEPT ![approval].status =
                                    IF lower(decision.chars) = APPROVE
                                    THEN APPROVED ELSE REJECTED],
                       ret |-> TRUE, raised |-> FALSE]

(* process_approval_response comparing the decision as given, without      *)
(* lower-casing it                                                          *)
RespondCaseSensitive(store, h, approval_id, responder, decision, comments, t) ==
    IF ~Has(store, approval_id)
    THEN [heap |-> h, ret |-> FALSE, raised |-> FALSE]
    ELSE LET approval == Ref(store, approval_id)
         IN  IF h[approval].status # PENDING
             THEN [heap |-> h, ret |-> FALSE, raised |-> FALSE]
             ELSE IF ~decision.isText
             THEN [heap |-> h, ret |-> FALSE, raised |-> FALSE]
             ELSE LET response == [responder |-> responder,
                                   decision |-> lower(decision.chars),
                                   comments |-> comments,
                                   timestamp |-> t]
                      appended == [h EXCEPT ![approval].responses = Append(@, response)]
                  IN  [heap |-> [appended EXCEPT ![approval].status =
                                    IF decision.chars = APPROVE
                                    THEN APPROVED ELSE REJECTED],
                       ret |-> TRUE, raised |-> FALSE]

(* process_approval_response *)
Respond(store, h, approval_id, responder, decision, comments, t) ==
    IF ~Has(store, approval_id)
    THEN [heap |-> h, ret |-> FALSE, raised |-> FALSE]
    ELSE LET approval == Ref(store, approval_id)
         IN  IF h[approval].status # PENDING
             THEN [heap |-> h, ret |-> FALSE, raised |-> FALSE]
             ELSE IF ~decision.isText
             THEN \* decision.lower() raises; except Exception: return False
                  [heap |-> h, ret |-> FALSE, raised |-> FALSE]
             ELSE LET response == [responder |-> responder,
                                   decision |-> lower(decision.chars),
                                   comments |-> comments,
                                   timestamp |-> t]
                      appended == [h EXCEPT ![approval].responses = Append(@, response)]
                  IN  [heap |-> [appended EXCEPT ![approval].status =
                                    IF lower(decision.chars) = APPROVE
                                    THEN APPROVED ELSE REJECTED],
                       ret |-> TRUE, raised |-> FALSE]

(* cleanup_expired_approvals with the test of the status dropped, as in    *)
(* check_approval_status                                                   *)
RECURSIVE SweepAnyStatus(_, _, _, _, _)
SweepAnyStatus(store, h, t, i, expired_ids) ==
    IF i > Len(store) THEN [heap |-> h, ret |-> expired_ids]
    ELSE LET approval == store[i].ref
         IN  IF _is_expired(h[approval], t)
             THEN SweepAnyStatus(store, [h EXCEPT ![approval].status = EXPIRED], t,
                                 i + 1, Append(expired_ids, store[i].key))
             ELSE SweepAnyStatus(store, h, t, i + 1, expired_ids)

CleanupAnyStatus(store, h, t) == SweepAnyStatus(store, h, t, 1, <<>>)

(* The loop of cleanup_expired_approvals over the items from position i on *)
RECURSIVE SweepFrom(_, _, _, _, _)
SweepFrom(store, h, t, i, expired_ids) ==
    IF i > Len(store) THEN [heap |-> h, ret |-> expired_ids]
    ELSE LET approval == store[i].ref
         IN  IF _is_expired(h[approval], t) /\ h[approval].status = PENDING
             THEN SweepFrom(store, [h EXCEPT ![approval].status = EXPIRED], t,
                            i + 1, Append(expired_ids, store[i].key))
             ELSE SweepFrom(store, h, t, i + 1, expired_ids)

(* cleanup_expired_approvals *)
Cleanup(store, h, t) == SweepFrom(store, h, t, 1, <<>>)

Range(s) == {s[i] : i \in DOMAIN s}

----------------------------------------------------------------------------
(* A completed call and the value it returned *)
Call(op, arg, ids, status, ok, raised) ==
    [op |-> op, arg |-> arg, ids |-> ids, status |-> status, ok |-> ok,
     raised |-> raised]

NoCall == [pc |-> "idle"]
Threads == {1, 2}

Init ==
    /\ pending_approvals = <<>>
    /\ heap = <<>>
    /\ now = 0
    /\ allocated = 0
    /\ last = Call("init", <<>>, <<>>, "", FALSE, FALSE)
    /\ sent = <<>>
    /\ hist = [accepted |-> {}, swept |-> {}, lapsed |-> {}]
    /\ threads = [t \in Threads |-> NoCall]
    /\ descriptors = [repair_data \in RepairSet |-> Descriptor]
    /\ _error_processor = <<>>
    /\ processed = [op |-> "", error_messages |-> <<>>, language |-> "",
                    raised |-> FALSE, records |-> <<>>]
    /\ seen = {}
    /\ agent = [is_monitoring |-> FALSE, original_excepthook |-> "None",
                performance_metrics |-> "{}", thread |-> 0]
    /\ sys_excepthook = "sys.__excepthook__"
    /\ monitors = <<>>
    /\ caller = [pc |-> "idle", op |-> "", ret |-> "None"]

(* The clock advances by d seconds *)
Advance(d) ==
    /\ now + d <= MaxHours * SecondsPerHour
    /\ now' = now + d
    /\ UNCHANGED <<pending_approvals, heap, allocated, last, sent, hist, threads>>
    /\ UNCHANGED <<descriptors, classifier, monitoring>>

(* request_approval(repair_data, recipients, channels, timeout_hours);     *)
(* uid is the random part of the id, fails the outcome of the senders      *)
request_approval(repair_data, recipients, channels, timeout_hours, uid, fails) ==
    LET approval_id == _generate_approval_id(uid, now)
        approval_record ==
            [id |-> approval_id,
             repair_data |-> repair_data,
             recipients |-> recipients,
             channels |-> channels,
             status |-> PENDING,
             created_at |-> now,
             expires_at |-> now + timeout_hours * SecondsPerHour,
             responses |-> <<>>,
             timeout_hours |-> timeout_hours]
        ref == allocated + 1
        notified == _send_notifications(approval_record.channels, fails)
        store == Put(pending_approvals, approval_id, ref)
    IN  /\ allocated < MaxRequests
        /\ allocated' = ref
        /\ pending_approvals' = store
        /\ heap' = Collect((ref :> approval_record) @@ heap, store, threads)
        /\ sent' = notified.sent
        /\ last' = Call("request_approval", approval_id,
                        IF notified.raised THEN <<>> ELSE <<approval_id>>, "", FALSE,
                        notified.raised)
        /\ UNCHANGED <<now, hist, threads>>
        /\ UNCHANGED <<descriptors, classifier, monitoring>>

(* check_approval_status(approval_id) *)
check_approval_status(approval_id) ==
    LET r == CheckStatus(pending_approvals, heap, approval_id, now)
    IN  /\ heap' = r.heap
        /\ last' = Call("check_approval_status", approval_id, <<>>, r.ret, FALSE, FALSE)
        /\ hist' = IF r.heap # heap /\ heap[Ref(pending_approvals, approval_id)].status = PENDING
                   THEN [hist EXCEPT !.lapsed = @ \cup {approval_id}] ELSE hist
        /\ UNCHANGED <<pending_approvals, now, allocated, sent, threads>>
        /\ UNCHANGED <<descriptors, classifier, monitoring>>

(* process_approval_response(approval_id, responder, decision, comments) *)
process_approval_response(approval_id, responder, decision, comments) ==
    LET r == Respond(pending_approvals, heap, approval_id, responder, decision,
                     comments, now)
    IN  /\ heap' = r.heap
        /\ last' = Call("process_approval_response", approval_id, <<>>, "", r.ret,
                        r.raised)
        /\ hist' = IF r.ret THEN [hist EXCEPT !.accepted = @ \cup {approval_id}] ELSE hist
        /\ UNCHANGED <<pending_approvals, now, allocated, sent, threads>>
        /\ UNCHANGED <<descriptors, classifier, monitoring>>

(* cleanup_expired_approvals() *)
cleanup_expired_approvals ==
    LET r == Cleanup(pending_approvals, heap, now)
    IN  /\ heap' = r.heap
        /\ last' = Call("cleanup_expired_approvals", <<>>, r.ret, "", FALSE, FALSE)
        /\ hist' = [hist EXCEPT !.swept = @ \cup Range(r.ret)]
        /\ UNCHANGED <<pending_approvals, now, allocated, sent, threads>>
        /\ UNCHANGED <<descriptors, classifier, monitoring>>

(* The ids a caller may pass: the stored ones and one never handed out *)
UnknownId == <<0, 0>>
CallIds == Keys(pending_approvals) \cup {UnknownId}

Next ==
    \/ \E d \in {SecondsPerHour} : Advance(d)
    \/ \E repair_data \in RepairSet, recipients \in {<<"a@x">>},
          channels \in {DefaultChannels}, timeout_hours \in TimeoutSet, uid \in UidSet :
          \E fails \in FailPatterns(channels) :
             request_approval(repair_data, recipients, channels, timeout_hours, uid, fails)
    \/ \E approval_id \in CallIds : check_approval_status(approval_id)
    \/ \E approval_id \in CallIds, responder \in ResponderSet,
          decision \in DecisionSet, comments \in CommentSet :
          process_approval_response(approval_id, responder, decision, comments)
    \/ cleanup_expired_approvals

Spec == Init /\ [][Next]_vars

----------------------------------------------------------------------------
(* Request creation alone, over every channels list and recipients list *)

(* timeout_hours: int = 24 *)
DefaultTimeoutHours == 24

NextNotify ==
    \E repair_data \in RepairSet, recipients \in RecipientsSet,
       channels \in ChannelLists, uid \in UidSet :
       \E fails \in FailPatterns(channels) :
          /\ allocated < MaxNotifyRequests
          /\ request_approval(repair_data, recipients, channels, DefaultTimeoutHours,
                              uid, fails)

SpecNotify == Init /\ [][NextNotify]_vars

----------------------------------------------------------------------------
(* Two request handlers calling process_approval_response at once.  The    *)
(* method takes no lock; a thread switch can fall between any two of its   *)
(* statements that touch the shared record.                                *)

Responder(t) == IF t = 1 THEN "bob" ELSE "carol"

(* The call begins; the ret of a call is its return value once pc is done *)
par_call(t, approval_id, decision, comments) ==
    /\ threads[t].pc = "idle"
    /\ threads' = [threads EXCEPT ![t] =
            [pc |-> "lookup", approval_id |-> approval_id, responder |-> Responder(t),
             decision |-> decision, comments |-> comments, approval |-> 0,
             ret |-> FALSE]]
    /\ UNCHANGED <<pending_approvals, heap, now, allocated, last, sent, hist>>
    /\ UNCHANGED <<descriptors, classifier, monitoring>>

(* if approval_id not in self.pending_approvals: return False              *)
(* approval = self.pending_approvals[approval_id]                          *)
par_lookup(t) ==
    /\ threads[t].pc = "lookup"
    /\ threads' = [threads EXCEPT ![t] =
            IF Has(pending_approvals, threads[t].approval_id)
            THEN [@ EXCEPT !.pc = "check",
                           !.approval = Ref(pending_approvals, threads[t].approval_id)]
            ELSE [@ EXCEPT !.pc = "done"]]
    /\ UNCHANGED <<pending_approvals, heap, now, allocated, last, sent, hist>>
    /\ UNCHANGED <<descriptors, classifier, monitoring>>

(* if approval['status'] != PENDING: return False; then the response is    *)
(* built from the arguments (decision.lower() raises on a non-text value)  *)
par_check(t) ==
    /\ threads[t].pc = "check"
    /\ threads' = [threads EXCEPT ![t] =
            IF heap[threads[t].approval].status = PENDING /\ threads[t].decision.isText
            THEN [@ EXCEPT !.pc = "append"]
            ELSE [@ EXCEPT !.pc = "done"]]
    /\ heap' = Collect(heap, pending_approvals, threads')
    /\ UNCHANGED <<pending_approvals, now, allocated, last, sent, hist>>
    /\ UNCHANGED <<descriptors, classifier, monitoring>>

(* approval['responses'].append(response) *)
par_append(t) ==
    /\ threads[t].pc = "append"
    /\ heap' = [heap EXCEPT ![threads[t].approval].responses =
            Append(@, [responder |-> threads[t].responder,
                       decision |-> lower(threads[t].decision.chars),
                       comments |-> threads[t].comments,
                       timestamp |-> now])]
    /\ threads' = [threads EXCEPT ![t].pc = "status"]
    /\ UNCHANGED <<pending_approvals, now, allocated, last, sent, hist>>
    /\ UNCHANGED <<descriptors, classifier, monitoring>>

(* approval['status'] = APPROVED or REJECTED; return True *)
par_status(t) ==
    /\ threads[t].pc = "status"
    /\ threads' = [threads EXCEPT ![t] = [@ EXCEPT !.pc = "done", !.ret = TRUE]]
    /\ heap' = Collect([heap EXCEPT ![threads[t].approval].status =
                            IF lower(threads[t].decision.chars) = APPROVE
                            THEN APPROVED ELSE REJECTED],
                       pending_approvals, threads')
    /\ hist' = [hist EXCEPT !.accepted = @ \cup {threads[t].approval_id}]
    /\ UNCHANGED <<pending_approvals, now, allocated, last, sent>>
    /\ UNCHANGED <<descriptors, classifier, monitoring>>

NextConc ==
    \/ \E uid \in UidSet : \E fails \in FailPatterns(DefaultChannels) :
          request_approval("repair", <<"a@x">>, DefaultChannels, DefaultTimeoutHours,
                           uid, fails)
    \/ \E t \in Threads, approval_id \in CallIds, decision \in DecisionSet,
          comments \in CommentSet : par_call(t, approval_id, decision, comments)
    \/ \E t \in Threads : par_lookup(t)
    \/ \E t \in Threads : par_check(t)
    \/ \E t \in Threads : par_append(t)
    \/ \E t \in Threads : par_status(t)

SpecConc == Init /\ [][NextConc]_vars

----------------------------------------------------------------------------
(* A request handler calling check_approval_status while another calls     *)
(* process_approval_response.  Neither method takes a lock; a thread       *)
(* switch can fall between any two statements that touch the shared record.*)

(* The call begins; status is what the caller reads in the dict returned   *)
(* once pc is returned                                                     *)
poll_call(t, approval_id) ==
    /\ threads[t].pc = "idle"
    /\ threads' = [threads EXCEPT ![t] =
            [pc |-> "member", approval_id |-> approval_id, approval |-> 0,
             status |-> ""]]
    /\ UNCHANGED <<pending_approvals, heap, now, allocated, last, sent, hist>>
    /\ UNCHANGED <<descriptors, classifier, monitoring>>

(* if approval_id not in self.pending_approvals: return {'status':         *)
(* 'not_found', ...}; approval = self.pending_approvals[approval_id]       *)
poll_lookup(t) ==
    /\ threads[t].pc = "member"
    /\ threads' = [threads EXCEPT ![t] =
            IF Has(pending_approvals, threads[t].approval_id)
            THEN [@ EXCEPT !.pc = "expired",
                           !.approval = Ref(pending_approvals, threads[t].approval_id)]
            ELSE [@ EXCEPT !.pc = "returned", !.status = NOT_FOUND]]
    /\ UNCHANGED <<pending_approvals, heap, now, allocated, last, sent, hist>>
    /\ UNCHANGED <<descriptors, classifier, monitoring>>

(* if self._is_expired(approval): ... else: return approval *)
poll_expired(t) ==
    /\ threads[t].pc = "expired"
    /\ threads' = [threads EXCEPT ![t] =
            IF _is_expired(heap[threads[t].approval], now)
            THEN [@ EXCEPT !.pc = "flip"]
            ELSE [@ EXCEPT !.pc = "returned", !.status = heap[threads[t].approval].status]]
    /\ heap' = Collect(heap, pending_approvals, threads')
    /\ UNCHANGED <<pending_approvals, now, allocated, last, sent, hist>>
    /\ UNCHANGED <<descriptors, classifier, monitoring>>

(* approval['status'] = ApprovalStatus.EXPIRED.value; return approval *)
poll_flip(t) ==
    /\ threads[t].pc = "flip"
    /\ threads' = [threads EXCEPT ![t] = [@ EXCEPT !.pc = "returned", !.status = EXPIRED]]
    /\ hist' = IF heap[threads[t].approval].status = PENDING
               THEN [hist EXCEPT !.lapsed = @ \cup {threads[t].approval_id}] ELSE hist
    /\ heap' = Collect([heap EXCEPT ![threads[t].approval].status = EXPIRED],
                       pending_approvals, threads')
    /\ UNCHANGED <<pending_approvals, now, allocated, last, sent>>
    /\ UNCHANGED <<descriptors, classifier, monitoring>>

(* One request with a deadline of one hour, the clock, one status check    *)
(* and one response, interleaved                                           *)
NextLazy ==
    \/ \E d \in {SecondsPerHour} : Advance(d)
    \/ \E uid \in UidSet : \E fails \in FailPatterns(DefaultChannels) :
          /\ allocated < MaxCallRequests
          /\ request_approval("repair", <<"a@x">>, DefaultChannels, 1, uid, fails)
    \/ \E approval_id \in CallIds, decision \in DecisionSet, comments \in CommentSet :
          par_call(1, approval_id, decision, comments)
    \/ par_lookup(1)
    \/ par_check(1)
    \/ par_append(1)
    \/ par_status(1)
    \/ \E approval_id \in CallIds : poll_call(2, approval_id)
    \/ poll_lookup(2)
    \/ poll_expired(2)
    \/ poll_flip(2)

SpecLazy == Init /\ [][NextLazy]_vars

----------------------------------------------------------------------------
(* A scheduled cleanup_expired_approvals running while request handlers    *)
(* call request_approval.  The sweep takes no lock.  Its for loop iterates *)
(* self.pending_approvals.items(): the dict iterator remembers the number  *)
(* of items the dict had when the loop began (used), and each step of the  *)
(* loop first compares it with the number the dict has now, raising        *)
(* RuntimeError (dictionary changed size during iteration) when they       *)
(* differ.  The method has no try: the exception leaves it.                *)

(* expired_ids = []; the for statement creates the iterator.  due are the  *)
(* ids of the pending requests past their deadline at that moment.         *)
sweep_call(t) ==
    /\ threads[t].pc = "idle"
    /\ threads' = [threads EXCEPT ![t] =
            [pc |-> "next", used |-> Len(pending_approvals), i |-> 1,
             expired_ids |-> <<>>, approval |-> 0,
             due |-> {pending_approvals[k].key : k \in
                        {j \in DOMAIN pending_approvals :
                            /\ heap[pending_approvals[j].ref].status = PENDING
                            /\ _is_expired(heap[pending_approvals[j].ref], now)}}]]
    /\ UNCHANGED <<pending_approvals, heap, now, allocated, last, sent, hist>>
    /\ UNCHANGED <<descriptors, classifier, monitoring>>

(* One step of the loop: the iterator yields the next item, ends the loop  *)
(* (return expired_ids) or raises; the body handles the item yielded       *)
sweep_next(t) ==
    /\ threads[t].pc = "next"
    /\ IF threads[t].used # Len(pending_approvals)
       THEN /\ threads' = [threads EXCEPT ![t].pc = "raised"]
            /\ UNCHANGED <<heap, hist>>
       ELSE IF threads[t].i > Len(pending_approvals)
       THEN /\ threads' = [threads EXCEPT ![t].pc = "swept"]
            /\ hist' = [hist EXCEPT !.swept = @ \cup Range(threads[t].expired_ids)]
            /\ UNCHANGED heap
       ELSE LET approval == pending_approvals[threads[t].i].ref
                hit == _is_expired(heap[approval], now) /\ heap[approval].status = PENDING
            IN  /\ heap' = IF hit THEN [heap EXCEPT ![approval].status = EXPIRED] ELSE heap
                /\ threads' = [threads EXCEPT
                        ![t].i = @ + 1,
                        ![t].expired_ids =
                            IF hit THEN Append(@, pending_approvals[threads[t].i].key)
                            ELSE @]
                /\ UNCHANGED hist
    /\ UNCHANGED <<pending_approvals, now, allocated, last, sent>>
    /\ UNCHANGED <<descriptors, classifier, monitoring>>

NextSweep ==
    \/ \E d \in {SecondsPerHour} : Advance(d)
    \/ \E uid \in UidSet : \E fails \in FailPatterns(DefaultChannels) :
          request_approval("repair", <<"a@x">>, DefaultChannels, 1, uid, fails)
    \/ sweep_call(1)
    \/ sweep_next(1)

SpecSweep == Init /\ [][NextSweep]_vars

----------------------------------------------------------------------------
(* Every call at one instant on a store of few requests, over every        *)
(* decision text                                                           *)

NextCalls ==
    \/ \E repair_data \in RepairSet, timeout_hours \in TimeoutSet, uid \in UidSet :
          \E fails \in FailPatterns(DefaultChannels) :
             /\ allocated < MaxCallRequests
             /\ request_approval(repair_data, <<"a@x">>, DefaultChannels, timeout_hours,
                                 uid, fails)
    \/ \E approval_id \in CallIds : check_approval_status(approval_id)
    \/ \E approval_id \in CallIds, responder \in ResponderSet,
          decision \in DecisionTexts, comments \in CommentSet :
          process_approval_response(approval_id, responder, decision, comments)
    \/ cleanup_expired_approvals

SpecCalls == Init /\ [][NextCalls]_vars

----------------------------------------------------------------------------
(* The caller keeps the dict it passed as repair_data and writes to it.    *)
(* request_approval stores the reference it was given ('repair_data':      *)
(* repair_data), so the record and the caller share the dict.              *)

modify_descriptor(repair_data, solution) ==
    /\ descriptors[repair_data].solution # solution
    /\ descriptors' = [descriptors EXCEPT ![repair_data].solution = solution]
    /\ UNCHANGED <<pending_approvals, heap, now, allocated, last, sent, hist, threads>>
    /\ UNCHANGED <<classifier, monitoring>>

NextAlias ==
    \/ \E d \in {SecondsPerHour} : Advance(d)
    \/ \E repair_data \in RepairSet, uid \in UidSet :
          \E fails \in FailPatterns(DefaultChannels) :
             /\ allocated < MaxCallRequests
             /\ request_approval(repair_data, <<"a@x">>, DefaultChannels, 1, uid, fails)
    \/ \E approval_id \in CallIds : check_approval_status(approval_id)
    \/ \E approval_id \in CallIds, responder \in ResponderSet,
          decision \in DecisionSet, comments \in CommentSet :
          process_approval_response(approval_id, responder, decision, comments)
    \/ cleanup_expired_approvals
    \/ \E repair_data \in RepairSet, solution \in SolutionSet :
          modify_descriptor(repair_data, solution)

SpecAlias == Init /\ [][NextAlias]_vars

----------------------------------------------------------------------------
(* The error classifier (src/src/core/error_processor.py, ErrorProcessor). *)
(* Messages, type names and keywords are texts, sequences of characters;   *)
(* severities, categories and action names are only ever compared whole    *)
(* and are strings.  The optional context of process_error is copied into  *)
(* the record and read nowhere; it is left out.                            *)

(* ErrorSeverity *)
CRITICAL == "critical"
HIGH == "high"
MEDIUM == "medium"
LOW == "low"
INFO == "info"

ErrorSeverity == {CRITICAL, HIGH, MEDIUM, LOW, INFO}

(* ErrorCategory *)
ErrorCategory ==
    {"syntax", "runtime", "logic", "security", "performance", "resource",
     "network", "database", "integration", "configuration"}

(* self.patterns: per language, the rules in declaration order.  A rule is *)
(* its type name and its regular expression: the literal alternatives of   *)
(* the expression and whether it ends in the group matching the rest of   *)
(* the line, written (...) below                                           *)
_initialize_patterns ==
    [ python |-> <<
        \* syntax_error: r'SyntaxError: (...)'
        [type |-> <<"s", "y", "n", "t", "a", "x", "_", "e", "r", "r", "o",
                  "r">>,
         alts |-> <<<<"S", "y", "n", "t", "a", "x", "E", "r", "r", "o", "r",
                    ":", " ">>>>,
         group |-> TRUE],
        \* name_error: r'NameError: (...)'
        [type |-> <<"n", "a", "m", "e", "_", "e", "r", "r", "o", "r">>,
         alts |-> <<<<"N", "a", "m", "e", "E", "r", "r", "o", "r", ":",
                    " ">>>>,
         group |-> TRUE],
        \* type_error: r'TypeError: (...)'
        [type |-> <<"t", "y", "p", "e", "_", "e", "r", "r", "o", "r">>,
         alts |-> <<<<"T", "y", "p", "e", "E", "r", "r", "o", "r", ":",
                    " ">>>>,
         group |-> TRUE],
        \* value_error: r'ValueError: (...)'
        [type |-> <<"v", "a", "l", "u", "e", "_", "e", "r", "r", "o", "r">>,
         alts |-> <<<<"V", "a", "l", "u", "e", "E", "r", "r", "o", "r", ":",
                    " ">>>>,
         group |-> TRUE],
        \* index_error: r'IndexError: (...)'
        [type |-> <<"i", "n", "d", "e", "x", "_", "e", "r", "r", "o", "r">>,
         alts |-> <<<<"I", "n", "d", "e", "x", "E", "r", "r", "o", "r", ":",
                    " ">>>>,
         group |-> TRUE],
        \* key_error: r'KeyError: (...)'
        [type |-> <<"k", "e", "y", "_", "e", "r", "r", "o", "r">>,
         alts |-> <<<<"K", "e", "y", "E", "r", "r", "o", "r", ":", " ">>>>,
         group |-> TRUE],
        \* attribute_error: r'AttributeError: (...)'
        [type |-> <<"a", "t", "t", "r", "i", "b", "u", "t", "e", "_", "e",
                  "r", "r", "o", "r">>,
         alts |-> <<<<"A", "t", "t", "r", "i", "b", "u", "t", "e", "E", "r",
                    "r", "o", "r", ":", " ">>>>,
         group |-> TRUE],
        \* import_error: r'ImportError: (...)'
        [type |-> <<"i", "m", "p", "o", "r", "t", "_", "e", "r", "r", "o",
                  "r">>,
         alts |-> <<<<"I", "m", "p", "o", "r", "t", "E", "r", "r", "o", "r",
                    ":", " ">>>>,
         group |-> TRUE],
        \* io_error: r'IOError: (...)'
        [type |-> <<"i", "o", "_", "e", "r", "r", "o", "r">>,
         alts |-> <<<<"I", "O", "E", "r", "r", "o", "r", ":", " ">>>>,
         group |-> TRUE],
        \* os_error: r'OSError: (...)'
        [type |-> <<"o", "s", "_", "e", "r", "r", "o", "r">>,
         alts |-> <<<<"O", "S", "E", "r", "r", "o", "r", ":", " ">>>>,
         group |-> TRUE]
      >>,
      javascript |-> <<
        \* syntax_error: r'SyntaxError: (...)'
        [type |-> <<"s", "y", "n", "t", "a", "x", "_", "e", "r", "r", "o",
                  "r">>,
         alts |-> <<<<"S", "y", "n", "t", "a", "x", "E", "r", "r", "o", "r",
                    ":", " ">>>>,
         group |-> TRUE],
        \* type_error: r'TypeError: (...)'
        [type |-> <<"t", "y", "p", "e", "_", "e", "r", "r", "o", "r">>,
         alts |-> <<<<"T", "y", "p", "e", "E", "r", "r", "o", "r", ":",
                    " ">>>>,
         group |-> TRUE],
        \* reference_error: r'ReferenceError: (...)'
        [type |-> <<"r", "e", "f", "e", "r", "e", "n", "c", "e", "_", "e",
                  "r", "r", "o", "r">>,
         alts |-> <<<<"R", "e", "f", "e", "r", "e", "n", "c", "e", "E", "r",
                    "r", "o", "r", ":", " ">>>>,
         group |-> TRUE],
        \* range_error: r'RangeError: (...)'
        [type |-> <<"r", "a", "n", "g", "e", "_", "e", "r", "r", "o", "r">>,
         alts |-> <<<<"R", "a", "n", "g", "e", "E", "r", "r", "o", "r", ":",
                    " ">>>>,
         group |-> TRUE],
        \* uri_error: r'URIError: (...)'
        [type |-> <<"u", "r", "i", "_", "e", "r", "r", "o", "r">>,
         alts |-> <<<<"U", "R", "I", "E", "r", "r", "o", "r", ":", " ">>>>,
         group |-> TRUE],
        \* eval_error: r'EvalError: (...)'
        [type |-> <<"e", "v", "a", "l", "_", "e", "r", "r", "o", "r">>,
         alts |-> <<<<"E", "v", "a", "l", "E", "r", "r", "o", "r", ":",
                    " ">>>>,
         group |-> TRUE]
      >>,
      java |-> <<
        \* null_pointer: r'NullPointerException'
        [type |-> <<"n", "u", "l", "l", "_", "p", "o", "i", "n", "t", "e",
                  "r">>,
         alts |-> <<<<"N", "u", "l", "l", "P", "o", "i", "n", "t", "e", "r",
                    "E", "x", "c", "e", "p", "t", "i", "o", "n">>>>,
         group |-> FALSE],
        \* array_index: r'ArrayIndexOutOfBoundsException'
        [type |-> <<"a", "r", "r", "a", "y", "_", "i", "n", "d", "e", "x">>,
         alts |-> <<<<"A", "r", "r", "a", "y", "I", "n", "d", "e", "x", "O",
                    "u", "t", "O", "f", "B", "o", "u", "n", "d", "s", "E",
                    "x", "c", "e", "p", "t", "i", "o", "n">>>>,
         group |-> FALSE],
        \* class_cast: r'ClassCastException'
        [type |-> <<"c", "l", "a", "s", "s", "_", "c", "a", "s", "t">>,
         alts |-> <<<<"C", "l", "a", "s", "s", "C", "a", "s", "t", "E", "x",
                    "c", "e", "p", "t", "i", "o", "n">>>>,
         group |-> FALSE],
        \* io_exception: r'IOException'
        [type |-> <<"i", "o", "_", "e", "x", "c", "e", "p", "t", "i", "o",
                  "n">>,
         alts |-> <<<<"I", "O", "E", "x", "c", "e", "p", "t", "i", "o",
                    "n">>>>,
         group |-> FALSE],
        \* sql_exception: r'SQLException'
        [type |-> <<"s", "q", "l", "_", "e", "x", "c", "e", "p", "t", "i",
                  "o", "n">>,
         alts |-> <<<<"S", "Q", "L", "E", "x", "c", "e", "p", "t", "i", "o",
                    "n">>>>,
         group |-> FALSE]
      >>,
      general |-> <<
        \* timeout: r'timeout|timed out|time out'
        [type |-> <<"t", "i", "m", "e", "o", "u", "t">>,
         alts |-> <<<<"t", "i", "m", "e", "o", "u", "t">>, <<"t", "i", "m",
                    "e", "d", " ", "o", "u", "t">>, <<"t", "i", "m", "e",
                    " ", "o", "u", "t">>>>,
         group |-> FALSE],
        \* connection: r'connection refused|connection reset|connection failed'
        [type |-> <<"c", "o", "n", "n", "e", "c", "t", "i", "o", "n">>,
         alts |-> <<<<"c", "o", "n", "n", "e", "c", "t", "i", "o", "n", " ",
                    "r", "e", "f", "u", "s", "e", "d">>, <<"c", "o", "n",
                    "n", "e", "c", "t", "i", "o", "n", " ", "r", "e", "s",
                    "e", "t">>, <<"c", "o", "n", "n", "e", "c", "t", "i",
                    "o", "n", " ", "f", "a", "i", "l", "e", "d">>>>,
         group |-> FALSE],
        \* memory: r'out of memory|memory leak'
        [type |-> <<"m", "e", "m", "o", "r", "y">>,
         alts |-> <<<<"o", "u", "t", " ", "o", "f", " ", "m", "e", "m", "o",
                    "r", "y">>, <<"m", "e", "m", "o", "r", "y", " ", "l",
                    "e", "a", "k">>>>,
         group |-> FALSE],
        \* disk: r'disk full|no space left'
        [type |-> <<"d", "i", "s", "k">>,
         alts |-> <<<<"d", "i", "s", "k", " ", "f", "u", "l", "l">>, <<"n",
                    "o", " ", "s", "p", "a", "c", "e", " ", "l", "e", "f",
                    "t">>>>,
         group |-> FALSE],
        \* permission: r'permission denied|access denied'
        [type |-> <<"p", "e", "r", "m", "i", "s", "s", "i", "o", "n">>,
         alts |-> <<<<"p", "e", "r", "m", "i", "s", "s", "i", "o", "n", " ",
                    "d", "e", "n", "i", "e", "d">>, <<"a", "c", "c", "e",
                    "s", "s", " ", "d", "e", "n", "i", "e", "d">>>>,
         group |-> FALSE]
      >> ]

(* self.severity_rules: the keywords of each severity *)
_initialize_severity_rules ==
    [ critical |-> <<  \* out of memory, disk full, connection refused, nullpointerexception, timeout
        <<"o", "u", "t", " ", "o", "f", " ", "m", "e", "m", "o", "r",
          "y">>,
        <<"d", "i", "s", "k", " ", "f", "u", "l", "l">>,
        <<"c", "o", "n", "n", "e", "c", "t", "i", "o", "n", " ", "r", "e",
          "f", "u", "s", "e", "d">>,
        <<"n", "u", "l", "l", "p", "o", "i", "n", "t", "e", "r", "e", "x",
          "c", "e", "p", "t", "i", "o", "n">>,
        <<"t", "i", "m", "e", "o", "u", "t">>
      >>,
      high |-> <<  \* typeerror, valueerror, sqlexception, ioexception, classcastexception
        <<"t", "y", "p", "e", "e", "r", "r", "o", "r">>,
        <<"v", "a", "l", "u", "e", "e", "r", "r", "o", "r">>,
        <<"s", "q", "l", "e", "x", "c", "e", "p", "t", "i", "o", "n">>,
        <<"i", "o", "e", "x", "c", "e", "p", "t", "i", "o", "n">>,
        <<"c", "l", "a", "s", "s", "c", "a", "s", "t", "e", "x", "c", "e",
          "p", "t", "i", "o", "n">>
      >>,
      medium |-> <<  \* attributeerror, importerror, referenceerror, rangeerror, urierror
        <<"a", "t", "t", "r", "i", "b", "u", "t", "e", "e", "r", "r", "o",
          "r">>,
        <<"i", "m", "p", "o", "r", "t", "e", "r", "r", "o", "r">>,
        <<"r", "e", "f", "e", "r", "e", "n", "c", "e", "e", "r", "r", "o",
          "r">>,
        <<"r", "a", "n", "g", "e", "e", "r", "r", "o", "r">>,
        <<"u", "r", "i", "e", "r", "r", "o", "r">>
      >>,
      low |-> <<  \* warning, deprecated, info
        <<"w", "a", "r", "n", "i", "n", "g">>,
        <<"d", "e", "p", "r", "e", "c", "a", "t", "e", "d">>,
        <<"i", "n", "f", "o">>
      >> ]

(* self.category_patterns: the categories with their keywords, in the     *)
(* order of the dict                                                      *)
_initialize_category_patterns ==
    <<
      \* syntax: syntaxerror, parseerror
      [category |-> "syntax", patterns |-> <<
          <<"s", "y", "n", "t", "a", "x", "e", "r", "r", "o", "r">>,
          <<"p", "a", "r", "s", "e", "e", "r", "r", "o", "r">>
        >>],
      \* runtime: typeerror, valueerror, nullpointer
      [category |-> "runtime", patterns |-> <<
          <<"t", "y", "p", "e", "e", "r", "r", "o", "r">>,
          <<"v", "a", "l", "u", "e", "e", "r", "r", "o", "r">>,
          <<"n", "u", "l", "l", "p", "o", "i", "n", "t", "e", "r">>
        >>],
      \* security: access denied, permission denied, security
      [category |-> "security", patterns |-> <<
          <<"a", "c", "c", "e", "s", "s", " ", "d", "e", "n", "i", "e",
            "d">>,
          <<"p", "e", "r", "m", "i", "s", "s", "i", "o", "n", " ", "d",
            "e", "n", "i", "e", "d">>,
          <<"s", "e", "c", "u", "r", "i", "t", "y">>
        >>],
      \* performance: timeout, slow, performance
      [category |-> "performance", patterns |-> <<
          <<"t", "i", "m", "e", "o", "u", "t">>,
          <<"s", "l", "o", "w">>,
          <<"p", "e", "r", "f", "o", "r", "m", "a", "n", "c", "e">>
        >>],
      \* resource: out of memory, disk full, resource
      [category |-> "resource", patterns |-> <<
          <<"o", "u", "t", " ", "o", "f", " ", "m", "e", "m", "o", "r",
            "y">>,
          <<"d", "i", "s", "k", " ", "f", "u", "l", "l">>,
          <<"r", "e", "s", "o", "u", "r", "c", "e">>
        >>],
      \* network: connection, network, http, https
      [category |-> "network", patterns |-> <<
          <<"c", "o", "n", "n", "e", "c", "t", "i", "o", "n">>,
          <<"n", "e", "t", "w", "o", "r", "k">>,
          <<"h", "t", "t", "p">>,
          <<"h", "t", "t", "p", "s">>
        >>],
      \* database: database, sql, query, transaction
      [category |-> "database", patterns |-> <<
          <<"d", "a", "t", "a", "b", "a", "s", "e">>,
          <<"s", "q", "l">>,
          <<"q", "u", "e", "r", "y">>,
          <<"t", "r", "a", "n", "s", "a", "c", "t", "i", "o", "n">>
        >>],
      \* integration: api, integration, webhook, service
      [category |-> "integration", patterns |-> <<
          <<"a", "p", "i">>,
          <<"i", "n", "t", "e", "g", "r", "a", "t", "i", "o", "n">>,
          <<"w", "e", "b", "h", "o", "o", "k">>,
          <<"s", "e", "r", "v", "i", "c", "e">>
        >>],
      \* configuration: config, setting, property, environment
      [category |-> "configuration", patterns |-> <<
          <<"c", "o", "n", "f", "i", "g">>,
          <<"s", "e", "t", "t", "i", "n", "g">>,
          <<"p", "r", "o", "p", "e", "r", "t", "y">>,
          <<"e", "n", "v", "i", "r", "o", "n", "m", "e", "n", "t">>
        >>]
    >>

(* ErrorProcessor.__init__ *)
ErrorProcessor ==
    [patterns |-> _initialize_patterns,
     severity_rules |-> _initialize_severity_rules,
     category_patterns |-> _initialize_category_patterns]

(* pattern in text *)
Contains(text, pattern) ==
    \E i \in 1..(Len(text) - Len(pattern) + 1) :
        \A j \in DOMAIN pattern : text[i + j - 1] = pattern[j]

(* The literal matches text at position i, case-sensitively: re.search    *)
(* without re.IGNORECASE                                                   *)
MatchesAtExactly(text, i, literal) ==
    /\ i + Len(literal) - 1 <= Len(text)
    /\ \A j \in DOMAIN literal : text[i + j - 1] = literal[j]

(* The literal matches text at position i, case-insensitively *)
MatchesAt(text, i, literal) ==
    /\ i + Len(literal) - 1 <= Len(text)
    /\ \A j \in DOMAIN literal : SameLetter(text[i + j - 1], literal[j])

(* The first alternative of the rule, from alternative a on, that matches  *)
(* text at position i; 0 if none does                                      *)
RECURSIVE AltFrom(_, _, _, _)
AltFrom(rule, text, i, a) ==
    IF a > Len(rule.alts) THEN 0
    ELSE IF MatchesAt(text, i, rule.alts[a]) THEN a
    ELSE AltFrom(rule, text, i, a + 1)

(* The end of the line that position i of text is on: the group stops there *)
LineEnd(text, i) ==
    LET breaks == {k \in i..Len(text) : text[k] = "\n"}
    IN  IF breaks = {} THEN Len(text)
        ELSE (CHOOSE k \in breaks : \A b \in breaks : k <= b) - 1

(* The match of alternative alt of the rule at position i of text; group1  *)
(* is what the group of the rule matched                                   *)
MatchOf(rule, text, i, alt) ==
    [matched |-> TRUE,
     group1 |-> IF rule.group
                THEN SubSeq(text, i + Len(rule.alts[alt]),
                            LineEnd(text, i + Len(rule.alts[alt])))
                ELSE <<>>]

(* The scan of re.search from position i of text on: the leftmost position *)
(* where an alternative matches, and there the first such alternative      *)
RECURSIVE SearchFrom(_, _, _)
SearchFrom(rule, text, i) ==
    IF i > Len(text) + 1 THEN [matched |-> FALSE, group1 |-> <<>>]
    ELSE IF AltFrom(rule, text, i, 1) # 0
    THEN MatchOf(rule, text, i, AltFrom(rule, text, i, 1))
    ELSE SearchFrom(rule, text, i + 1)

(* re.search(pattern, text, re.IGNORECASE) *)
re_search(rule, text) == SearchFrom(rule, text, 1)

UNKNOWN == <<"u", "n", "k", "n", "o", "w", "n">>

(* The error_info after a rule matched: the language table also replaces   *)
(* the message (with_message), by the group if the rule has one            *)
Matched(rule, error_info, with_message, match) ==
    [type |-> rule.type,
     message |-> IF with_message /\ rule.group THEN match.group1 ELSE error_info.message,
     patterns |-> Append(error_info.patterns, rule.type)]

(* The loop over the rules of a table without its break: every rule that  *)
(* matches sets the type, so the last one stays                            *)
RECURSIVE FirstMatchNoBreak(_, _, _, _, _)
FirstMatchNoBreak(rules, error_message, error_info, with_message, i) ==
    IF i > Len(rules) THEN error_info
    ELSE IF re_search(rules[i], error_message).matched
    THEN FirstMatchNoBreak(rules, error_message,
                           Matched(rules[i], error_info, with_message,
                                   re_search(rules[i], error_message)),
                           with_message, i + 1)
    ELSE FirstMatchNoBreak(rules, error_message, error_info, with_message, i + 1)

(* The loop over the rules of a table from rule i on: the first rule that  *)
(* matches sets the type and ends the loop                                 *)
RECURSIVE FirstMatch(_, _, _, _, _)
FirstMatch(rules, error_message, error_info, with_message, i) ==
    IF i > Len(rules) THEN error_info
    ELSE IF re_search(rules[i], error_message).matched
    THEN Matched(rules[i], error_info, with_message, re_search(rules[i], error_message))
    ELSE FirstMatch(rules, error_message, error_info, with_message, i + 1)

(* The first loop of _extract_error_info: the rules of the language *)
LanguageMatch(self, error_message, language, error_info) ==
    IF language \in DOMAIN self.patterns
    THEN FirstMatch(self.patterns[language], error_message, error_info, TRUE, 1)
    ELSE error_info

(* The second loop of _extract_error_info without its test of the type:   *)
(* the general rules are tried after the rules of the language as well     *)
GeneralMatchAlways(self, error_message, error_info) ==
    FirstMatch(self.patterns["general"], error_message, error_info, FALSE, 1)

(* The second loop of _extract_error_info: the general rules, if the type  *)
(* is still unknown                                                        *)
GeneralMatch(self, error_message, error_info) ==
    IF error_info.type = UNKNOWN
    THEN FirstMatch(self.patterns["general"], error_message, error_info, FALSE, 1)
    ELSE error_info

(* _extract_error_info *)
_extract_error_info(self, error_message, language) ==
    GeneralMatch(self, error_message,
                 LanguageMatch(self, error_message, language,
                               [type |-> UNKNOWN, message |-> error_message,
                                patterns |-> <<>>]))

(* A keyword of the bucket occurs in one of the two texts *)
BucketHit(bucket, error_lower, error_type_lower) ==
    \E k \in DOMAIN bucket :
        Contains(error_lower, bucket[k]) \/ Contains(error_type_lower, bucket[k])

(* The tests of _determine_severity with info as the severity of a       *)
(* message without a hit                                                   *)
FirstBucketOrInfo(severity_rules, error_lower, error_type_lower) ==
    IF BucketHit(severity_rules.critical, error_lower, error_type_lower)
    THEN CRITICAL
    ELSE IF BucketHit(severity_rules.high, error_lower, error_type_lower)
    THEN HIGH
    ELSE IF BucketHit(severity_rules.medium, error_lower, error_type_lower)
    THEN MEDIUM
    ELSE IF BucketHit(severity_rules.low, error_lower, error_type_lower)
    THEN LOW
    ELSE INFO

(* The tests of _determine_severity in the opposite order: the least      *)
(* severe bucket with a hit                                                *)
FirstBucketFromLow(severity_rules, error_lower, error_type_lower) ==
    IF BucketHit(severity_rules.low, error_lower, error_type_lower)
    THEN LOW
    ELSE IF BucketHit(severity_rules.medium, error_lower, error_type_lower)
    THEN MEDIUM
    ELSE IF BucketHit(severity_rules.high, error_lower, error_type_lower)
    THEN HIGH
    ELSE IF BucketHit(severity_rules.critical, error_lower, error_type_lower)
    THEN CRITICAL
    ELSE MEDIUM

(* The severity of the first bucket with a hit, in the order of the tests  *)
(* of _determine_severity                                                  *)
FirstBucket(severity_rules, error_lower, error_type_lower) ==
    IF BucketHit(severity_rules.critical, error_lower, error_type_lower)
    THEN CRITICAL
    ELSE IF BucketHit(severity_rules.high, error_lower, error_type_lower)
    THEN HIGH
    ELSE IF BucketHit(severity_rules.medium, error_lower, error_type_lower)
    THEN MEDIUM
    ELSE IF BucketHit(severity_rules.low, error_lower, error_type_lower)
    THEN LOW
    ELSE MEDIUM

(* _determine_severity with the keywords looked up in the message as given, *)
(* not lower-cased                                                          *)
_determine_severity_as_given(self, error_message, error_info) ==
    FirstBucket(self.severity_rules, error_message, lower(error_info.type))

(* _determine_severity *)
_determine_severity(self, error_message, error_info) ==
    FirstBucket(self.severity_rules, lower(error_message), lower(error_info.type))

(* The default category, from the type of the error *)
CategoryOfType(error_type) ==
    IF Contains(error_type, <<"s", "y", "n", "t", "a", "x">>)
    THEN "syntax"
    ELSE IF \/ Contains(error_type, <<"t", "i", "m", "e", "o", "u", "t">>)
            \/ Contains(error_type, <<"p", "e", "r", "f", "o", "r", "m", "a", "n", "c", "e">>)
    THEN "performance"
    ELSE IF \/ Contains(error_type, <<"c", "o", "n", "n", "e", "c", "t", "i", "o", "n">>)
            \/ Contains(error_type, <<"n", "e", "t", "w", "o", "r", "k">>)
    THEN "network"
    ELSE IF \/ Contains(error_type, <<"m", "e", "m", "o", "r", "y">>)
            \/ Contains(error_type, <<"d", "i", "s", "k">>)
    THEN "resource"
    ELSE IF \/ Contains(error_type, <<"p", "e", "r", "m", "i", "s", "s", "i", "o", "n">>)
            \/ Contains(error_type, <<"s", "e", "c", "u", "r", "i", "t", "y">>)
    THEN "security"
    ELSE IF \/ Contains(error_type, <<"s", "q", "l">>)
            \/ Contains(error_type, <<"d", "a", "t", "a", "b", "a", "s", "e">>)
    THEN "database"
    ELSE "runtime"

(* The loop of _determine_category over the category table taken from its *)
(* last entry backwards                                                    *)
RECURSIVE CategoryFromEnd(_, _, _, _)
CategoryFromEnd(category_patterns, error_lower, error_type, i) ==
    IF i > Len(category_patterns) THEN CategoryOfType(error_type)
    ELSE IF \E k \in DOMAIN category_patterns[Len(category_patterns) - i + 1].patterns :
               Contains(error_lower,
                        category_patterns[Len(category_patterns) - i + 1].patterns[k])
         THEN category_patterns[Len(category_patterns) - i + 1].category
         ELSE CategoryFromEnd(category_patterns, error_lower, error_type, i + 1)

(* The loop of _determine_category over the category table from entry i on *)
RECURSIVE CategoryFrom(_, _, _, _)
CategoryFrom(category_patterns, error_lower, error_type, i) ==
    IF i > Len(category_patterns) THEN CategoryOfType(error_type)
    ELSE IF \E k \in DOMAIN category_patterns[i].patterns :
               Contains(error_lower, category_patterns[i].patterns[k])
         THEN category_patterns[i].category
         ELSE CategoryFrom(category_patterns, error_lower, error_type, i + 1)

(* _determine_category *)
_determine_category(self, error_message, error_info) ==
    CategoryFrom(self.category_patterns, lower(error_message), error_info.type, 1)

(* The actions _suggest_actions adds for the severity *)
SeverityActions(severity) ==
    IF severity = CRITICAL THEN <<"immediate_attention", "notify_team">>
    ELSE IF severity = HIGH THEN <<"review_urgently">>
    ELSE <<>>

(* The actions _suggest_actions adds for the type *)
TypeActions(error_type) ==
    IF Contains(error_type, <<"s", "y", "n", "t", "a", "x">>)
    THEN <<"check_code_syntax", "validate_variables">>
    ELSE IF Contains(error_type, <<"t", "y", "p", "e">>)
    THEN <<"validate_data_types", "check_variable_assignment">>
    ELSE IF Contains(error_type, <<"n", "u", "l", "l">>)
    THEN <<"add_null_checks", "validate_object_existence">>
    ELSE IF Contains(error_type, <<"m", "e", "m", "o", "r", "y">>)
    THEN <<"check_memory_usage", "review_resource_allocation">>
    ELSE IF Contains(error_type, <<"t", "i", "m", "e", "o", "u", "t">>)
    THEN <<"increase_timeout", "optimize_performance">>
    ELSE IF Contains(error_type, <<"p", "e", "r", "m", "i", "s", "s", "i", "o", "n">>)
    THEN <<"check_file_permissions", "validate_user_access">>
    ELSE <<>>

(* actions.append('review_manually') without its test *)
OrDefaultAlways(actions) == Append(actions, "review_manually")

(* if not actions: actions.append('review_manually') *)
OrDefault(actions) ==
    IF actions = <<>> THEN <<"review_manually">> ELSE actions

(* _suggest_actions without the default action *)
_suggest_actions_without_default(error_info, severity, category) ==
    SeverityActions(severity) \o TypeActions(error_info.type)

(* _suggest_actions *)
_suggest_actions(error_info, severity, category) ==
    OrDefault(SeverityActions(severity) \o TypeActions(error_info.type))

(* _generate_error_id: f"err_{uuid.uuid4().hex[:8]}_{int(timestamp)}" *)
_generate_error_id(uid, t) == <<uid, t>>

PROCESSING_ERROR == <<"p", "r", "o", "c", "e", "s", "s", "i", "n", "g", "_", "e", "r",
        "r", "o", "r">>

(* f'Error processing original error: {str(e)}', up to the text of e *)
FaultMessage == <<"E", "r", "r", "o", "r", " ", "p", "r", "o", "c", "e", "s", "s",
        "i", "n", "g", " ", "o", "r", "i", "g", "i", "n", "a", "l", " ", "e",
        "r", "r", "o", "r", ":", " ">>

(* The record of the except branch of process_error *)
FaultRecord(error_message, language, uid, t) ==
    [id |-> _generate_error_id(uid, t),
     raw_message |-> error_message,
     language |-> language,
     type |-> PROCESSING_ERROR,
     message |-> FaultMessage,
     severity |-> HIGH,
     category |-> "runtime",
     timestamp |-> t,
     suggested_actions |-> <<"review_manually">>,
     patterns_found |-> <<>>]

(* The dict processed_error of the try branch *)
Assembled(error_message, language, uid, t, error_info, severity, category) ==
    [id |-> _generate_error_id(uid, t),
     raw_message |-> error_message,
     language |-> language,
     type |-> error_info.type,
     message |-> error_info.message,
     severity |-> severity,
     category |-> category,
     timestamp |-> t,
     suggested_actions |-> _suggest_actions(error_info, severity, category),
     patterns_found |-> error_info.patterns]

(* The try branch of process_error once error_info is extracted *)
Classified(self, error_message, language, uid, t, error_info) ==
    Assembled(error_message, language, uid, t, error_info,
              _determine_severity(self, error_message.chars, error_info),
              _determine_category(self, error_message.chars, error_info))

(* The record of the try branch of process_error, for a text message *)
ProcessedRecord(self, error_message, language, uid, t) ==
    Classified(self, error_message, language, uid, t,
               _extract_error_info(self, error_message.chars, language))

(* process_error with the try/except dropped: the TypeError of re.search on *)
(* a message that is not text leaves the method                             *)
ProcessErrorUncaught(self, error_message, language, uid, t) ==
    IF ~error_message.isText
    THEN [raised |-> TRUE, value |-> <<>>]
    ELSE [raised |-> FALSE,
          value |-> <<ProcessedRecord(self, error_message, language, uid, t)>>]

(* process_error: what it returns (value, one record) or that it raises.   *)
(* re.search raises TypeError on a message that is not text; every table   *)
(* lookup ends in a search, so such a message always takes the except      *)
(* branch.                                                                 *)
ProcessError(self, error_message, language, uid, t) ==
    IF ~error_message.isText
    THEN [raised |-> FALSE, value |-> <<FaultRecord(error_message, language, uid, t)>>]
    ELSE [raised |-> FALSE,
          value |-> <<ProcessedRecord(self, error_message, language, uid, t)>>]

(* batch_process_errors with each record put in front of the list *)
RECURSIVE BatchPrepending(_, _, _, _, _, _, _)
BatchPrepending(self, error_messages, language, uids, t, i, processed_errors) ==
    IF i > Len(error_messages) THEN [raised |-> FALSE, value |-> processed_errors]
    ELSE LET processed_error == ProcessError(self, error_messages[i], language, uids[i], t)
         IN  IF processed_error.raised THEN [raised |-> TRUE, value |-> <<>>]
             ELSE BatchPrepending(self, error_messages, language, uids, t, i + 1,
                                  processed_error.value \o processed_errors)

(* The loop of batch_process_errors from message i on.  The method has no  *)
(* try: an exception of process_error (no value returned) would end it.    *)
RECURSIVE BatchFrom(_, _, _, _, _, _, _)
BatchFrom(self, error_messages, language, uids, t, i, processed_errors) ==
    IF i > Len(error_messages) THEN [raised |-> FALSE, value |-> processed_errors]
    ELSE LET processed_error == ProcessError(self, error_messages[i], language, uids[i], t)
         IN  IF processed_error.raised THEN [raised |-> TRUE, value |-> <<>>]
             ELSE BatchFrom(self, error_messages, language, uids, t, i + 1,
                            processed_errors \o processed_error.value)

----------------------------------------------------------------------------
(* The classifier as a state machine *)

(* 'TypeError: unsupported operand' *)
TypeErrorMessage ==
    Text(<<"T", "y", "p", "e", "E", "r", "r", "o", "r", ":", " ", "u", "n",
           "s", "u", "p", "p", "o", "r", "t", "e", "d", " ", "o", "p", "e",
           "r", "a", "n", "d">>)

(* 'Connection refused' *)
ConnectionRefusedMessage ==
    Text(<<"C", "o", "n", "n", "e", "c", "t", "i", "o", "n", " ", "r", "e",
           "f", "u", "s", "e", "d">>)

MessageSet ==
    { Text(<<>>),
      TypeErrorMessage,
      ConnectionRefusedMessage,
      \* 'NullPointerException'
      Text(<<"N", "u", "l", "l", "P", "o", "i", "n", "t", "e", "r", "E", "x",
           "c", "e", "p", "t", "i", "o", "n">>),
      \* 'SyntaxError: invalid syntax'
      Text(<<"S", "y", "n", "t", "a", "x", "E", "r", "r", "o", "r", ":", " ",
           "i", "n", "v", "a", "l", "i", "d", " ", "s", "y", "n", "t", "a",
           "x">>),
      \* 'deprecated api'
      Text(<<"d", "e", "p", "r", "e", "c", "a", "t", "e", "d", " ", "a", "p",
           "i">>),
      NotText }

(* Language tags: two with a rule table and one without *)
LanguageSet == {"python", "java", "ruby"}

MessageLists == SeqsUpTo(MessageSet, MaxBatch)

(* What a classification is compared by: all but id and timestamp *)
Outcome(record) ==
    [type |-> record.type,
     severity |-> record.severity,
     category |-> record.category,
     suggested_actions |-> record.suggested_actions]

(* The entry of seen for a (message, language) pair *)
Known(history, error_message, language) ==
    {e \in history : e.raw_message = error_message /\ e.language = language}

(* The history after message i and the following ones of a call were       *)
(* classified as records                                                   *)
RECURSIVE Note(_, _, _, _, _)
Note(history, error_messages, language, records, i) ==
    IF i > Len(records) THEN history
    ELSE LET known == Known(history, error_messages[i], language)
             entry == IF known = {}
                      THEN [raw_message |-> error_messages[i], language |-> language,
                            outcomes |-> {Outcome(records[i])}, calls |-> 1,
                            between |-> FALSE]
                      ELSE LET e == CHOOSE e \in known : TRUE
                           IN  [e EXCEPT !.outcomes = @ \cup {Outcome(records[i])},
                                         !.calls = @ + 1]
             others == {[e EXCEPT !.between = TRUE] : e \in history \ known}
         IN  Note(others \cup {entry}, error_messages, language, records, i + 1)

(* get_error_processor(): the singleton is constructed on first use *)
get_error_processor ==
    /\ _error_processor' = IF _error_processor = <<>> THEN <<ErrorProcessor>>
                           ELSE _error_processor
    /\ UNCHANGED <<processed, seen, workflow, monitoring>>

(* What a call leaves in processed; result is what it returned or that it  *)
(* raised                                                                  *)
Reported(op, error_messages, language, result) ==
    [op |-> op, error_messages |-> error_messages, language |-> language,
     raised |-> result.raised, records |-> result.value]

(* process_error keeping what it matched: the call empties the general     *)
(* rule table of the processor                                             *)
process_error_consuming(error_message, language, uid) ==
    /\ _error_processor # <<>>
    /\ processed' = Reported("process_error", <<error_message>>, language,
                             ProcessError(_error_processor[1], error_message,
                                          language, uid, now))
    /\ seen' = Note(seen, <<error_message>>, language, processed'.records, 1)
    /\ _error_processor' = <<[_error_processor[1] EXCEPT !.patterns.general = <<>>]>>
    /\ UNCHANGED <<workflow, monitoring>>

(* process_error(error_message, language); uid is the random part of the id *)
process_error(error_message, language, uid) ==
    /\ _error_processor # <<>>
    /\ processed' = Reported("process_error", <<error_message>>, language,
                             ProcessError(_error_processor[1], error_message,
                                          language, uid, now))
    /\ seen' = Note(seen, <<error_message>>, language, processed'.records, 1)
    /\ UNCHANGED <<_error_processor, workflow, monitoring>>

(* batch_process_errors(error_messages, language); uids[i] is the random   *)
(* part of the id of the i-th record                                       *)
batch_process_errors(error_messages, language, uids) ==
    /\ _error_processor # <<>>
    /\ processed' = Reported("batch_process_errors", error_messages, language,
                             BatchFrom(_error_processor[1], error_messages, language,
                                       uids, now, 1, <<>>))
    /\ seen' = Note(seen, error_messages, language, processed'.records, 1)
    /\ UNCHANGED <<_error_processor, workflow, monitoring>>

(* The first MaxCalls calls of a processor, single or batch *)
NextClassify ==
    \/ get_error_processor
    \/ \E error_message \in MessageSet, language \in LanguageSet, uid \in UidSet :
          /\ Cardinality(seen) < MaxCalls
          /\ process_error(error_message, language, uid)
    \/ \E error_messages \in MessageLists, language \in LanguageSet :
          \E uid \in UidSet :
             /\ Cardinality(seen) < MaxCalls
             /\ batch_process_errors(error_messages, language,
                                     [i \in DOMAIN error_messages |-> uid])

SpecClassify == Init /\ [][NextClassify]_vars

(* Repeated process_error calls on at most MaxClassified (message,         *)
(* language) pairs, each classified at most MaxRepeat times                 *)
Repeatable(error_message, language) ==
    LET known == Known(seen, error_message, language)
    IN  IF known = {} THEN Cardinality(seen) < MaxClassified
        ELSE \A e \in known : e.calls < MaxRepeat

NextRepeat ==
    \/ get_error_processor
    \/ \E error_message \in MessageSet, language \in LanguageSet, uid \in UidSet :
          /\ Repeatable(error_message, language)
          /\ process_error(error_message, language, uid)

SpecRepeat == Init /\ [][NextRepeat]_vars

(* Messages on which several rules, buckets or table entries have a hit *)

(* 'TypeError: a NameError: b' *)
TwoPythonRulesMessage ==
    Text(<<"T", "y", "p", "e", "E", "r", "r", "o", "r", ":", " ", "a", " ",
           "N", "a", "m", "e", "E", "r", "r", "o", "r", ":", " ", "b">>)

(* 'typeerror: x timeout' *)
LowerCaseMessage ==
    Text(<<"t", "y", "p", "e", "e", "r", "r", "o", "r", ":", " ", "x", " ",
           "t", "i", "m", "e", "o", "u", "t">>)

(* 'timed out' *)
TimedOutMessage ==
    Text(<<"t", "i", "m", "e", "d", " ", "o", "u", "t">>)

(* 'connection refused after timeout' *)
TwoGeneralRulesMessage ==
    Text(<<"c", "o", "n", "n", "e", "c", "t", "i", "o", "n", " ", "r", "e",
           "f", "u", "s", "e", "d", " ", "a", "f", "t", "e", "r", " ", "t",
           "i", "m", "e", "o", "u", "t">>)

(* 'SQLException: connection timeout' *)
SqlTimeoutMessage ==
    Text(<<"S", "Q", "L", "E", "x", "c", "e", "p", "t", "i", "o", "n", ":",
           " ", "c", "o", "n", "n", "e", "c", "t", "i", "o", "n", " ", "t",
           "i", "m", "e", "o", "u", "t">>)

(* 'memory leak' *)
MemoryLeakMessage ==
    Text(<<"m", "e", "m", "o", "r", "y", " ", "l", "e", "a", "k">>)

(* 'IOException ArrayIndexOutOfBoundsException' *)
TwoJavaRulesMessage ==
    Text(<<"I", "O", "E", "x", "c", "e", "p", "t", "i", "o", "n", " ", "A",
           "r", "r", "a", "y", "I", "n", "d", "e", "x", "O", "u", "t", "O",
           "f", "B", "o", "u", "n", "d", "s", "E", "x", "c", "e", "p", "t",
           "i", "o", "n">>)

(* 'permission denied' *)
PermissionMessage ==
    Text(<<"p", "e", "r", "m", "i", "s", "s", "i", "o", "n", " ", "d", "e",
           "n", "i", "e", "d">>)

(* 'no space left' *)
NoSpaceMessage ==
    Text(<<"n", "o", " ", "s", "p", "a", "c", "e", " ", "l", "e", "f", "t">>)

(* 'ImportError: deprecated' *)
ImportDeprecatedMessage ==
    Text(<<"I", "m", "p", "o", "r", "t", "E", "r", "r", "o", "r", ":", " ",
           "d", "e", "p", "r", "e", "c", "a", "t", "e", "d">>)

(* 'info: cache miss' *)
InfoMessage ==
    Text(<<"i", "n", "f", "o", ":", " ", "c", "a", "c", "h", "e", " ", "m",
           "i", "s", "s">>)

RuleMessages ==
    { TwoPythonRulesMessage, LowerCaseMessage, TimedOutMessage,
      TwoGeneralRulesMessage, SqlTimeoutMessage, MemoryLeakMessage,
      TwoJavaRulesMessage, PermissionMessage, NoSpaceMessage,
      ImportDeprecatedMessage, InfoMessage }

(* Language tags: the three with a rule table and one without *)
RuleLanguages == {"python", "javascript", "java", "ruby"}

(* The first MaxCalls process_error calls of a processor, on the messages  *)
(* of both sets                                                            *)
NextRules ==
    \/ get_error_processor
    \/ \E error_message \in MessageSet \cup RuleMessages, language \in RuleLanguages,
          uid \in UidSet :
          /\ Cardinality(seen) < MaxCalls
          /\ process_error(error_message, language, uid)

SpecRules == Init /\ [][NextRules]_vars

----------------------------------------------------------------------------
(* The monitoring agent: PythonMonitorAgent, its caller and the threads it *)
(* creates                                                                 *)

(* The caller is between two calls *)
Between == caller.pc \in {"idle", "returned"}

(* The caller's call returns *)
Return(op, ret) == [pc |-> "returned", op |-> op, ret |-> ret]

(* start_monitoring, up to its test of is_monitoring: a running agent      *)
(* returns False                                                           *)
start_monitoring ==
    /\ Between
    /\ Len(monitors) < MaxStarts
    /\ caller' = IF agent.is_monitoring
                 THEN Return("start_monitoring", "False")
                 ELSE [pc |-> "hook", op |-> "start_monitoring", ret |-> "None"]
    /\ UNCHANGED <<agent, sys_excepthook, monitors, workflow, classifier>>

(* _setup_exception_hook, called by start_monitoring *)
_setup_exception_hook ==
    /\ caller.pc = "hook"
    /\ agent' = [agent EXCEPT !.original_excepthook = sys_excepthook]
    /\ sys_excepthook' = "smartfix_excepthook"
    /\ caller' = [caller EXCEPT !.pc = "spawn"]
    /\ UNCHANGED <<monitors, workflow, classifier>>

(* _start_performance_monitoring, called by start_monitoring: the thread   *)
(* is created, kept in self.thread and started; when the system cannot     *)
(* start it (started is false) Thread.start raises and start_monitoring    *)
(* returns False from its except branch                                    *)
_start_performance_monitoring(started) ==
    /\ caller.pc = "spawn"
    /\ monitors' = Append(monitors, [pc |-> IF started THEN "test" ELSE "unstarted"])
    /\ agent' = [agent EXCEPT !.thread = Len(monitors) + 1]
    /\ caller' = IF started THEN [caller EXCEPT !.pc = "flag"]
                 ELSE Return("start_monitoring", "False")
    /\ UNCHANGED <<sys_excepthook, workflow, classifier>>

(* The end of start_monitoring: self.is_monitoring = True; return True *)
start_monitoring_flag ==
    /\ caller.pc = "flag"
    /\ agent' = [agent EXCEPT !.is_monitoring = TRUE]
    /\ caller' = Return("start_monitoring", "True")
    /\ UNCHANGED <<sys_excepthook, monitors, workflow, classifier>>

(* stop_monitoring, up to self.is_monitoring = False: an agent that is not *)
(* running returns at once                                                 *)
stop_monitoring ==
    /\ Between
    /\ IF agent.is_monitoring
       THEN /\ agent' = [agent EXCEPT !.is_monitoring = FALSE]
            /\ caller' = [pc |-> "restore", op |-> "stop_monitoring", ret |-> "None"]
       ELSE /\ caller' = Return("stop_monitoring", "None")
            /\ UNCHANGED agent
    /\ UNCHANGED <<sys_excepthook, monitors, workflow, classifier>>

(* stop_monitoring: the original exception hook is put back *)
stop_monitoring_restore ==
    /\ caller.pc = "restore"
    /\ sys_excepthook' = IF agent.original_excepthook # "None"
                         THEN agent.original_excepthook ELSE sys_excepthook
    /\ caller' = [caller EXCEPT !.pc = "join"]
    /\ UNCHANGED <<agent, monitors, workflow, classifier>>

(* stop_monitoring: self.thread.join(timeout=5) returns when the thread    *)
(* has ended or the five seconds are over, whichever is first              *)
stop_monitoring_join ==
    /\ caller.pc = "join"
    /\ caller' = Return("stop_monitoring", "None")
    /\ UNCHANGED <<agent, sys_excepthook, monitors, workflow, classifier>>

(* performance_monitor in thread m: the test of while self.is_monitoring;  *)
(* the function, and with it the thread, ends when it is false             *)
performance_monitor_test(m) ==
    /\ monitors[m].pc = "test"
    /\ monitors' = [monitors EXCEPT ![m].pc =
                       IF agent.is_monitoring THEN "check" ELSE "exited"]
    /\ UNCHANGED <<agent, sys_excepthook, caller, workflow, classifier>>

(* performance_monitor in thread m: _check_performance stores a sample of  *)
(* the process metrics, or stores nothing when psutil is missing or fails  *)
performance_monitor_check(m, sampled) ==
    /\ monitors[m].pc = "check"
    /\ agent' = [agent EXCEPT !.performance_metrics =
                    IF sampled THEN "sample" ELSE agent.performance_metrics]
    /\ monitors' = [monitors EXCEPT ![m].pc = "sleep"]
    /\ UNCHANGED <<sys_excepthook, caller, workflow, classifier>>

(* performance_monitor in thread m: time.sleep(self.check_interval) is     *)
(* over and the loop goes back to its test                                 *)
performance_monitor_sleep(m) ==
    /\ monitors[m].pc = "sleep"
    /\ monitors' = [monitors EXCEPT ![m].pc = "test"]
    /\ UNCHANGED <<agent, sys_excepthook, caller, workflow, classifier>>

(* An agent started and stopped by one thread, beside the threads it       *)
(* creates; at most MaxStarts threads are created                          *)
NextMonitor ==
    \/ start_monitoring
    \/ _setup_exception_hook
    \/ \E started \in BOOLEAN : _start_performance_monitoring(started)
    \/ start_monitoring_flag
    \/ stop_monitoring
    \/ stop_monitoring_restore
    \/ stop_monitoring_join
    \/ \E m \in DOMAIN monitors : performance_monitor_test(m)
    \/ \E m \in DOMAIN monitors, sampled \in BOOLEAN :
          performance_monitor_check(m, sampled)
    \/ \E m \in DOMAIN monitors : performance_monitor_sleep(m)

SpecMonitor == Init /\ [][NextMonitor]_vars

----------------------------------------------------------------------------
(* Properties *)

(* The record stored under a key *)
Stored(id) == heap[Ref(pending_approvals, id)]
StoredNext(id) == heap'[Ref(pending_approvals', id)]

Terminal(status) == status # PENDING

(* The step is the named call on approval_id *)
Checking(approval_id) ==
    /\ last'.op = "check_approval_status"
    /\ last'.arg = approval_id
    /\ check_approval_status(approval_id)

Responding(approval_id) ==
    /\ last'.op = "process_approval_response"
    /\ last'.arg = approval_id
    /\ \E responder \in ResponderSet, decision \in DecisionTexts, comments \in CommentSet :
          process_approval_response(approval_id, responder, decision, comments)

Sweeping ==
    last'.op = "cleanup_expired_approvals" /\ cleanup_expired_approvals

(* C1: once a request has a status other than pending, no call changes     *)
(* the status of that request (that record object) again.  Stated for      *)
(* requests created with a positive timeout.                               *)
C1_TerminalAbsorbing ==
    [][\A o \in DOMAIN heap :
          (Terminal(heap[o].status) /\ heap[o].timeout_hours > 0 /\ o \in DOMAIN heap')
            => heap'[o].status = heap[o].status]_vars

(* C2: for every request id, at most one process_approval_response call on *)
(* that id ever returns True: a call that returns True is on an id on      *)
(* which no earlier call returned True.                                    *)
C2_AtMostOneTrue ==
    [][\A approval_id \in CallIds :
          (Responding(approval_id) /\ last'.ok)
            => approval_id \notin hist.accepted]_vars

(* C3: a process_approval_response call that returns False changes nothing: *)
(* every stored request has the status and the responses it had before.    *)
C3_FalseIsNoOp ==
    [][\A approval_id \in CallIds :
          (Responding(approval_id) /\ ~last'.ok)
            => /\ pending_approvals' = pending_approvals
               /\ DOMAIN heap' = DOMAIN heap
               /\ \A o \in DOMAIN heap :
                     /\ heap'[o].status = heap[o].status
                     /\ heap'[o].responses = heap[o].responses]_vars

(* C3 witness: a response was refused on a stored, already approved request *)
C3_Witness ==
    /\ last.op = "process_approval_response"
    /\ ~last.ok
    /\ Has(pending_approvals, last.arg)
    /\ Stored(last.arg).status = APPROVED
    /\ Len(Stored(last.arg).responses) = 1

(* C4: process_approval_response on a request whose deadline has passed    *)
(* returns False and leaves its status alone, whether or not a status      *)
(* check or a sweep has run since.  Stated for requests created with a     *)
(* positive timeout.                                                       *)
C4_LateResponseRefused ==
    [][\A approval_id \in Keys(pending_approvals) :
          (Responding(approval_id)
             /\ Stored(approval_id).timeout_hours > 0
             /\ now > Stored(approval_id).expires_at)
            => /\ ~last'.ok
               /\ StoredNext(approval_id).status = Stored(approval_id).status]_vars

(* C5: check_approval_status past the deadline of a pending request        *)
(* returns expired and stores it, and from then on every status check on   *)
(* that id reports expired and every response on it returns False.         *)
C5_LazyExpiryPersists ==
    [][/\ \A approval_id \in Keys(pending_approvals) :
            (Checking(approval_id)
               /\ Stored(approval_id).status = PENDING
               /\ now > Stored(approval_id).expires_at)
              => /\ last'.status = EXPIRED
                 /\ StoredNext(approval_id).status = EXPIRED
       /\ \A approval_id \in hist.lapsed :
            Checking(approval_id) => last'.status = EXPIRED
       /\ \A approval_id \in hist.lapsed :
            Responding(approval_id) => ~last'.ok]_vars

(* C6: two process_approval_response calls running at once on the same     *)
(* pending request never both succeed: of two finished calls with text     *)
(* decisions that looked up the same record, exactly one returned True and *)
(* the record holds exactly one response.                                  *)
C6_OneWinner ==
    \A t1, t2 \in Threads :
        (/\ t1 # t2
         /\ threads[t1].pc = "done" /\ threads[t2].pc = "done"
         /\ threads[t1].approval # 0
         /\ threads[t1].approval = threads[t2].approval
         /\ threads[t1].approval \in DOMAIN heap
         /\ threads[t1].decision.isText /\ threads[t2].decision.isText)
        => /\ threads[t1].ret # threads[t2].ret
           /\ Len(heap[threads[t1].approval].responses) = 1

(* C7: cleanup_expired_approvals changes exactly the pending requests past *)
(* their deadline, setting their status to expired and nothing else,       *)
(* leaves every other request as it was, and returns exactly the ids it    *)
(* changed, each once.                                                     *)
Due == {i \in DOMAIN pending_approvals :
           /\ heap[pending_approvals[i].ref].status = PENDING
           /\ now > heap[pending_approvals[i].ref].expires_at}

C7_SweepExact ==
    [][Sweeping
         => /\ pending_approvals' = pending_approvals
            /\ DOMAIN heap' = DOMAIN heap
            /\ \A i \in DOMAIN pending_approvals :
                  LET o == pending_approvals[i].ref
                  IN  IF i \in Due
                      THEN heap'[o] = [heap[o] EXCEPT !.status = EXPIRED]
                      ELSE heap'[o] = heap[o]
            /\ Range(last'.ids) = {pending_approvals[i].key : i \in Due}
            /\ Len(last'.ids) = Cardinality(Due)]_vars

(* C7 witness: a sweep has expired one request and left alone another one  *)
(* that is past its deadline but approved                                  *)
C7_Witness ==
    /\ last.op = "cleanup_expired_approvals"
    /\ Len(last.ids) = 1
    /\ Stored(last.ids[1]).status = EXPIRED
    /\ \E id \in Keys(pending_approvals) :
          /\ id \notin Range(last.ids)
          /\ Stored(id).status = APPROVED
          /\ now > Stored(id).expires_at

(* C8: an id returned by one sweep is never returned by a later sweep *)
C8_SweepReportsOnce ==
    [][Sweeping => Range(last'.ids) \cap hist.swept = {}]_vars

(* C9: request_approval returns the new id with the record stored under it, *)
(* pending and without responses, whatever the senders did and whatever    *)
(* the recipients list is.                                                 *)
C9_CreatedDespiteSenders ==
    last.op = "request_approval"
      => /\ last.ids = <<last.arg>>
         /\ Has(pending_approvals, last.arg)
         /\ Stored(last.arg).id = last.arg
         /\ Stored(last.arg).status = PENDING
         /\ Stored(last.arg).responses = <<>>

(* C9 witness: a request with no recipients was created although both of   *)
(* its senders raised                                                      *)
C9_Witness ==
    /\ last.op = "request_approval"
    /\ last.ids = <<last.arg>>
    /\ Stored(last.arg).recipients = <<>>
    /\ Stored(last.arg).status = PENDING
    /\ Len(sent) = 2
    /\ \A i \in DOMAIN sent : ~sent[i].ok

(* C10: the senders invoked for a request are, in list order and once per  *)
(* entry, those of the channels that have a registered sender, whether or  *)
(* not an earlier sender raised; a channel without a sender is skipped.    *)
IsRegistered(channel) == channel \in notification_handlers

C11_ExpiredHasNoResponse ==
    \A o \in DOMAIN heap :
        (heap[o].status = EXPIRED /\ heap[o].timeout_hours > 0)
          => heap[o].responses = <<>>

(* C12: check_approval_status on an id that request_approval never         *)
(* returned reports not_found and changes neither the store nor any record *)
C12_UnknownIdNotFound ==
    [][\A approval_id \in CallIds \ Keys(pending_approvals) :
          Checking(approval_id)
            => /\ last'.status = NOT_FOUND
               /\ pending_approvals' = pending_approvals
               /\ heap' = heap]_vars

(* C12 witness: a status check on an unknown id answered not_found while   *)
(* the store holds a request                                               *)
C12_Witness ==
    /\ last.op = "check_approval_status"
    /\ last.arg = UnknownId
    /\ last.status = NOT_FOUND
    /\ ~Has(pending_approvals, UnknownId)
    /\ Len(pending_approvals) > 0

(* The step is a process_approval_response call on approval_id whose       *)
(* decision is not text                                                    *)
Faulting(approval_id) ==
    /\ last'.op = "process_approval_response"
    /\ last'.arg = approval_id
    /\ \E responder \in ResponderSet, comments \in CommentSet :
          process_approval_response(approval_id, responder, NotText, comments)

(* C13: process_approval_response never raises to its caller; a fault      *)
(* while it builds the response (a decision that is not text) is reported  *)
(* as False, appends no response and leaves the status as it was.          *)
C13_FaultReportedAsFalse ==
    [][\A approval_id \in CallIds :
          /\ Responding(approval_id) => ~last'.raised
          /\ Faulting(approval_id)
               => /\ ~last'.ok
                  /\ pending_approvals' = pending_approvals
                  /\ heap' = heap]_vars

(* C13 witness: a response on a stored pending request returned False and  *)
(* the request is still pending without a response, which only a decision  *)
(* that is not text brings about                                           *)
C13_Witness ==
    /\ last.op = "process_approval_response"
    /\ ~last.ok /\ ~last.raised
    /\ Has(pending_approvals, last.arg)
    /\ Stored(last.arg).status = PENDING
    /\ Stored(last.arg).responses = <<>>

(* The step is a process_approval_response call on approval_id with the    *)
(* given decision                                                          *)
RespondingWith(approval_id, decision) ==
    /\ last'.op = "process_approval_response"
    /\ last'.arg = approval_id
    /\ \E responder \in ResponderSet, comments \in CommentSet :
          process_approval_response(approval_id, responder, decision, comments)

(* C14: a process_approval_response call that returns True sets the status *)
(* to approved exactly when the decision equals 'approve' compared         *)
(* case-insensitively and to rejected for every other text, and appends    *)
(* one response holding the decision in lower case.                        *)
C14_DecisionNormalised ==
    [][\A approval_id \in Keys(pending_approvals), decision \in DecisionTexts :
          (RespondingWith(approval_id, decision) /\ last'.ok)
            => /\ decision.isText
               /\ StoredNext(approval_id).status =
                     IF EqualsIgnoreCase(decision.chars, APPROVE)
                     THEN APPROVED ELSE REJECTED
               /\ LET before == Stored(approval_id).responses
                      after == StoredNext(approval_id).responses
                  IN  /\ Len(after) = Len(before) + 1
                      /\ SubSeq(after, 1, Len(before)) = before
                      /\ EqualsIgnoreCase(after[Len(after)].decision, decision.chars)
                      /\ \A i \in DOMAIN after[Len(after)].decision :
                            after[Len(after)].decision[i] \notin DOMAIN UpperToLower]_vars

(* C14 witness: the decision 'approved' was accepted; the request is       *)
(* rejected and its response holds 'approved'                              *)
C14_Witness ==
    /\ last.op = "process_approval_response"
    /\ last.ok
    /\ Stored(last.arg).status = REJECTED
    /\ Stored(last.arg).responses[1].decision = Append(APPROVE, "d")

(* The type names 'type_error' and 'connection' of the rule tables *)
type_error == <<"t", "y", "p", "e", "_", "e", "r", "r", "o", "r">>
connection == <<"c", "o", "n", "n", "e", "c", "t", "i", "o", "n">>

(* C15: process_error never raises and returns one record per message; for *)
(* a message on which pattern matching fails (one that is not text) the    *)
(* record has type processing_error, severity high, category runtime, the  *)
(* single action review_manually and the message as it was given.          *)
C15_FaultDegradesToRecord ==
    /\ ~processed.raised
    /\ Len(processed.records) = Len(processed.error_messages)
    /\ \A i \in DOMAIN processed.records :
          ~processed.error_messages[i].isText
            => /\ processed.records[i].type = PROCESSING_ERROR
               /\ processed.records[i].severity = HIGH
               /\ processed.records[i].category = "runtime"
               /\ processed.records[i].suggested_actions = <<"review_manually">>
               /\ processed.records[i].raw_message = processed.error_messages[i]

(* C15 witness: process_error was called with a message that is not text   *)
(* and returned a processing_error record                                  *)
C15_Witness ==
    /\ processed.op = "process_error"
    /\ processed.error_messages = <<NotText>>
    /\ ~processed.raised
    /\ processed.records[1].type = PROCESSING_ERROR

(* C16: every record returned by the classifier has a severity of          *)
(* ErrorSeverity, a category of ErrorCategory and at least one suggested   *)
(* action, whatever the message (the empty one included) and the language. *)
C16_RecordWellFormed ==
    \A i \in DOMAIN processed.records :
        /\ processed.records[i].severity \in ErrorSeverity
        /\ processed.records[i].category \in ErrorCategory
        /\ processed.records[i].suggested_actions # <<>>

(* C16 witness: the empty message was classified for a language without a  *)
(* rule table; nothing matched and the record got the default action       *)
C16_Witness ==
    /\ processed.op = "process_error"
    /\ processed.error_messages = <<Text(<<>>)>>
    /\ processed.language = "ruby"
    /\ processed.records[1].type = UNKNOWN
    /\ processed.records[1].severity = MEDIUM
    /\ processed.records[1].category = "runtime"
    /\ processed.records[1].suggested_actions = <<"review_manually">>

(* C17: every classification of the same (message, language) pair gives    *)
(* the same type, severity, category and suggested actions, whatever was   *)
(* classified in between.                                                  *)
C17_Deterministic ==
    \A e \in seen : Cardinality(e.outcomes) = 1

(* C17 witness: the pair just classified was classified before, and        *)
(* another pair was classified between the two calls                       *)
C17_Witness ==
    /\ processed.op = "process_error"
    /\ \E e \in seen :
          /\ processed.error_messages = <<e.raw_message>>
          /\ processed.language = e.language
          /\ e.calls = 2
          /\ e.between
          /\ e.raw_message = ConnectionRefusedMessage

(* C18: 'TypeError: unsupported operand' classified for python has type    *)
(* type_error, severity high, category runtime, and validate_data_types    *)
(* among its suggested actions.                                            *)
C18_TypeErrorScenario ==
    \A i \in DOMAIN processed.records :
        (processed.error_messages[i] = TypeErrorMessage /\ processed.language = "python")
          => /\ processed.records[i].type = type_error
             /\ processed.records[i].severity = HIGH
             /\ processed.records[i].category = "runtime"
             /\ "validate_data_types" \in Range(processed.records[i].suggested_actions)

(* C18 witness: the message was classified for python *)
C18_Witness ==
    /\ processed.op = "process_error"
    /\ processed.error_messages = <<TypeErrorMessage>>
    /\ processed.language = "python"
    /\ processed.records[1].patterns_found = <<type_error>>
    /\ processed.records[1].suggested_actions =
          <<"review_urgently", "validate_data_types", "check_variable_assignment">>

(* C19: 'Connection refused', which no language table matches, is          *)
(* classified by the general table: type connection, severity critical,    *)
(* category network.                                                       *)
C19_ConnectionRefusedScenario ==
    \A i \in DOMAIN processed.records :
        processed.error_messages[i] = ConnectionRefusedMessage
          => /\ processed.records[i].type = connection
             /\ processed.records[i].severity = CRITICAL
             /\ processed.records[i].category = "network"

(* C19 witness: the message was classified for python, whose table has no  *)
(* rule for it, and the general rule connection was found                  *)
C19_Witness ==
    /\ processed.op = "process_error"
    /\ processed.error_messages = <<ConnectionRefusedMessage>>
    /\ processed.language = "python"
    /\ processed.records[1].patterns_found = <<connection>>
    /\ processed.records[1].severity = CRITICAL

(* C20: batch_process_errors returns one record per message, in the order  *)
(* of the messages, and the i-th record has the type, severity, category   *)
(* and suggested actions that process_error gives the i-th message alone.  *)
C20_BatchIsPointwise ==
    processed.op = "batch_process_errors"
      => /\ Len(processed.records) = Len(processed.error_messages)
         /\ \A i \in DOMAIN processed.records :
               /\ processed.records[i].raw_message = processed.error_messages[i]
               /\ processed.records[i].language = processed.language
               /\ \A uid \in UidSet :
                     Outcome(processed.records[i]) =
                       Outcome(ProcessError(_error_processor[1],
                                            processed.error_messages[i],
                                            processed.language, uid, now).value[1])

(* C20 witness: a batch of two messages of different types was classified  *)
C20_Witness ==
    /\ processed.op = "batch_process_errors"
    /\ processed.error_messages = <<ConnectionRefusedMessage, TypeErrorMessage>>
    /\ processed.language = "python"
    /\ Len(processed.records) = 2
    /\ processed.records[1].type = connection
    /\ processed.records[2].type = type_error

(* C21: a check_approval_status call and a process_approval_response call  *)
(* running at once on the same pending request leave exactly one           *)
(* transition: once both have returned, either the request is expired, the *)
(* response call returned False and no response is recorded, or it is      *)
(* approved or rejected and the response call returned True.               *)
C21_OneTransition ==
    \A t1, t2 \in Threads :
        (/\ threads[t1].pc = "done" /\ threads[t2].pc = "returned"
         /\ threads[t1].approval # 0
         /\ threads[t1].approval = threads[t2].approval
         /\ threads[t1].approval \in DOMAIN heap
         /\ threads[t1].decision.isText)
        => LET approval == heap[threads[t1].approval]
           IN  \/ /\ approval.status = EXPIRED
                  /\ ~threads[t1].ret
                  /\ approval.responses = <<>>
               \/ /\ approval.status \in {APPROVED, REJECTED}
                  /\ threads[t1].ret

(* C22: the two expiry paths apply the same rule: for every stored request *)
(* and every time, the status the request has after                        *)
(* check_approval_status(id) is the status it has after                    *)
(* cleanup_expired_approvals run at that time from the same store.  Stated *)
(* for requests created with a positive timeout.                           *)
C22_SameExpiryRule ==
    \A i \in DOMAIN pending_approvals :
        LET approval == pending_approvals[i].ref
        IN  heap[approval].timeout_hours > 0
              => CheckStatus(pending_approvals, heap, pending_approvals[i].key,
                             now).heap[approval].status
                   = Cleanup(pending_approvals, heap, now).heap[approval].status

(* C23: status and responses of every stored request agree: a pending     *)
(* request has no response; an approved or rejected request has exactly    *)
(* one, whose decision is 'approve' exactly when the status is approved;   *)
(* no request holds more than one response, and in every step the request  *)
(* stored under an id keeps the responses it has, unmodified.  The last    *)
(* part is stated for requests created with a positive timeout.            *)
C23_StatusMatchesResponses ==
    [][/\ \A o \in DOMAIN heap' :
            /\ Len(heap'[o].responses) <= 1
            /\ heap'[o].status = PENDING => heap'[o].responses = <<>>
            /\ heap'[o].status \in {APPROVED, REJECTED}
                 => /\ Len(heap'[o].responses) = 1
                    /\ (heap'[o].responses[1].decision = APPROVE)
                         <=> (heap'[o].status = APPROVED)
       /\ \A id \in Keys(pending_approvals) :
            (Stored(id).timeout_hours > 0 /\ StoredNext(id).timeout_hours > 0)
              => /\ Len(StoredNext(id).responses) >= Len(Stored(id).responses)
                 /\ SubSeq(StoredNext(id).responses, 1, Len(Stored(id).responses))
                      = Stored(id).responses]_vars

(* C24: of a stored request only status and responses ever change: in      *)
(* every step, a call of the workflow or a write of the caller to the      *)
(* descriptor it passed, every request keeps its id, recipients, channels, *)
(* created_at, expires_at and timeout, and its repair descriptor with what *)
(* the descriptor holds.                                                   *)
C24_OnlyStatusAndResponsesChange ==
    [][\A o \in (DOMAIN heap) \cap (DOMAIN heap') :
          /\ heap'[o].id = heap[o].id
          /\ heap'[o].recipients = heap[o].recipients
          /\ heap'[o].channels = heap[o].channels
          /\ heap'[o].created_at = heap[o].created_at
          /\ heap'[o].expires_at = heap[o].expires_at
          /\ heap'[o].timeout_hours = heap[o].timeout_hours
          /\ heap'[o].repair_data = heap[o].repair_data
          /\ descriptors'[heap'[o].repair_data] = descriptors[heap[o].repair_data]]_vars

(* The step is a request_approval call: it creates a record object *)
Requesting == allocated' # allocated

C26_FreshId ==
    [][Requesting
         => /\ last'.arg \notin Keys(pending_approvals)
            /\ \A i \in DOMAIN pending_approvals :
                  pending_approvals'[i] = pending_approvals[i]]_vars

(* C27: every stored request has a positive timeout *)
C27_PositiveTimeout ==
    \A o \in DOMAIN heap : heap[o].timeout_hours > 0

(* C28: no request is ever cancelled, and every change of a status is from *)
(* pending to approved, rejected or expired.  Stated for requests created  *)
(* with a positive timeout.                                                *)
C28_OnlyFromPending ==
    [][\A o \in DOMAIN heap' :
          heap'[o].timeout_hours > 0
            => /\ heap'[o].status # CANCELLED
               /\ (o \in DOMAIN heap /\ heap'[o].status # heap[o].status)
                    => /\ heap[o].status = PENDING
                       /\ heap'[o].status \in {APPROVED, REJECTED, EXPIRED}]_vars

(* C29: expiry is strict: check_approval_status on a stored request whose  *)
(* deadline has not passed, the clock being at most expires_at, reports    *)
(* the stored status and changes nothing; it changes a request only past   *)
(* the deadline, and then only the status.                                 *)
C29_StrictExpiry ==
    [][\A approval_id \in Keys(pending_approvals) :
          Checking(approval_id)
            => /\ now <= Stored(approval_id).expires_at
                    => /\ last'.status = Stored(approval_id).status
                       /\ pending_approvals' = pending_approvals
                       /\ heap' = heap
               /\ heap' # heap
                    => /\ now > Stored(approval_id).expires_at
                       /\ heap' = [heap EXCEPT ![Ref(pending_approvals, approval_id)].status
                                                  = EXPIRED]]_vars

(* C29 witness: a status check exactly at the deadline of a request, one   *)
(* hour after its creation, found it pending                               *)
C29_Witness ==
    /\ last.op = "check_approval_status"
    /\ Has(pending_approvals, last.arg)
    /\ Stored(last.arg).timeout_hours > 0
    /\ now = Stored(last.arg).expires_at
    /\ last.status = PENDING
    /\ Stored(last.arg).status = PENDING

(* C30: a call addressed to one id leaves the other requests alone:        *)
(* check_approval_status(id) and process_approval_response(id, ...) change *)
(* neither status nor responses of the request stored under another id,    *)
(* and request_approval changes neither of any request already stored.     *)
(* The part on request_approval is stated for requests created with a      *)
(* positive timeout.                                                       *)
C30_OthersUntouched ==
    [][/\ \A approval_id \in CallIds :
            (Checking(approval_id) \/ Responding(approval_id))
              => \A other \in Keys(pending_approvals) \ {approval_id} :
                    /\ StoredNext(other).status = Stored(other).status
                    /\ StoredNext(other).responses = Stored(other).responses
       /\ Requesting
            => \A id \in Keys(pending_approvals) :
                  (Stored(id).timeout_hours > 0 /\ StoredNext(id).timeout_hours > 0)
                    => /\ StoredNext(id).status = Stored(id).status
                       /\ StoredNext(id).responses = Stored(id).responses]_vars

(* C31: a sweep running alongside request_approval calls completes without *)
(* error, and once it has returned every request that was pending and past *)
(* its deadline when the sweep started is expired.                         *)
C31_SweepAlongsideCreation ==
    \A t \in Threads :
        /\ threads[t].pc # "raised"
        /\ threads[t].pc = "swept"
             => \A id \in threads[t].due : Stored(id).status = EXPIRED

(* The text occurs in the message, compared case-insensitively *)
OccursIn(message, text) == Contains(lower(message), lower(text))

(* The rules of a table of which an alternative occurs in the message *)
RulesOccurring(rules, message) ==
    {r \in DOMAIN rules :
        \E a \in DOMAIN rules[r].alts : OccursIn(message, rules[r].alts[a])}

(* The rule among those of S that the table declares first *)
DeclaredFirst(S) == CHOOSE r \in S : \A q \in S : r <= q

(* The language tags that have a rule table of their own *)
LanguagesWithTable == DOMAIN _initialize_patterns \ {"general"}

name_error == <<"n", "a", "m", "e", "_", "e", "r", "r", "o", "r">>

(* C32: when an alternative of one or more rules of the language's table   *)
(* occurs in the message, compared case-insensitively, the type is that of *)
(* the rule declared first among them, wherever in the message each of     *)
(* them occurs.                                                            *)
C32_FirstDeclaredRuleWins ==
    \A i \in DOMAIN processed.records :
        LET error_message == processed.error_messages[i]
            language == processed.language
        IN  (/\ error_message.isText
             /\ language \in LanguagesWithTable
             /\ RulesOccurring(_initialize_patterns[language], error_message.chars) # {})
              => /\ processed.records[i].type =
                       _initialize_patterns[language][
                           DeclaredFirst(RulesOccurring(_initialize_patterns[language],
                                                        error_message.chars))].type
                 /\ processed.records[i].patterns_found = <<processed.records[i].type>>

(* C32 witness: 'TypeError: a NameError: b' was classified for python; two *)
(* rules of the table occur in it, TypeError first in the message, and the *)
(* type is name_error, which the table declares before type_error          *)
C32_Witness ==
    /\ processed.op = "process_error"
    /\ processed.error_messages = <<TwoPythonRulesMessage>>
    /\ processed.language = "python"
    /\ Cardinality(RulesOccurring(_initialize_patterns.python,
                                  TwoPythonRulesMessage.chars)) = 2
    /\ processed.records[1].type = name_error

sql_exception == <<"s", "q", "l", "_", "e", "x", "c", "e", "p", "t", "i", "o", "n">>

(* The rules of the language's own table that occur in the message; none   *)
(* for a language tag without a table                                      *)
OwnRulesOccurring(language, message) ==
    IF language \in DOMAIN _initialize_patterns
    THEN RulesOccurring(_initialize_patterns[language], message)
    ELSE {}

(* C33: the general table decides the type only when no rule of the        *)
(* language's table occurs in the message (a language tag without a table  *)
(* has no such rule): if one occurs the type is a type of the language's   *)
(* table, whatever general rules occur as well; otherwise it is the type   *)
(* of the first general rule that occurs, and unknown if none does.        *)
C33_GeneralOnlyAsFallback ==
    \A i \in DOMAIN processed.records :
        processed.error_messages[i].isText
          => LET message == processed.error_messages[i].chars
                 language == processed.language
                 own == OwnRulesOccurring(language, message)
                 general == RulesOccurring(_initialize_patterns.general, message)
             IN  IF own # {}
                 THEN processed.records[i].type \in
                         {_initialize_patterns[language][r].type : r \in own}
                 ELSE IF general # {}
                 THEN processed.records[i].type =
                         _initialize_patterns.general[DeclaredFirst(general)].type
                 ELSE processed.records[i].type = UNKNOWN

(* C33 witness: 'SQLException: connection timeout' was classified for      *)
(* java; the general rules timeout and connection occur in it too, and the *)
(* type is the one of the java rule                                        *)
C33_Witness ==
    /\ processed.op = "process_error"
    /\ processed.error_messages = <<SqlTimeoutMessage>>
    /\ processed.language = "java"
    /\ RulesOccurring(_initialize_patterns.general, SqlTimeoutMessage.chars) # {}
    /\ processed.records[1].type = sql_exception

(* A keyword of the list occurs in the lower-cased raw message or in the   *)
(* type name                                                               *)
KeywordHit(keywords, raw_message, type) ==
    \E k \in DOMAIN keywords :
        \/ Contains(lower(raw_message), keywords[k])
        \/ Contains(type, keywords[k])

(* The buckets of the severity table with a hit, as severities *)
BucketsHit(raw_message, type) ==
    {severity \in {CRITICAL, HIGH, MEDIUM, LOW} :
        KeywordHit(_initialize_severity_rules[severity], raw_message, type)}

(* C34: the severity of a record is the most severe of the buckets         *)
(* critical, high, medium, low that have a keyword occurring in the        *)
(* lower-cased raw message or in the type of the record, and medium when   *)
(* no bucket has one.                                                      *)
C34_MostSevereBucketWins ==
    \A i \in DOMAIN processed.records :
        processed.error_messages[i].isText
          => LET hit == BucketsHit(processed.error_messages[i].chars,
                                   processed.records[i].type)
             IN  processed.records[i].severity =
                    IF CRITICAL \in hit THEN CRITICAL
                    ELSE IF HIGH \in hit THEN HIGH
                    ELSE IF MEDIUM \in hit THEN MEDIUM
                    ELSE IF LOW \in hit THEN LOW
                    ELSE MEDIUM

(* C34 witness: 'typeerror: x timeout' was classified for python as a      *)
(* type_error; the buckets critical ('timeout') and high ('typeerror')     *)
(* both have a hit and the severity is critical                            *)
C34_Witness ==
    /\ processed.op = "process_error"
    /\ processed.error_messages = <<LowerCaseMessage>>
    /\ processed.language = "python"
    /\ processed.records[1].type = type_error
    /\ BucketsHit(LowerCaseMessage.chars, type_error) = {CRITICAL, HIGH}
    /\ processed.records[1].severity = CRITICAL

(* The entries of the keyword-to-category table with a keyword occurring   *)
(* in the lower-cased raw message                                          *)
EntriesOccurring(raw_message) ==
    {e \in DOMAIN _initialize_category_patterns :
        \E k \in DOMAIN _initialize_category_patterns[e].patterns :
            Contains(lower(raw_message), _initialize_category_patterns[e].patterns[k])}

(* The words looked for in the type when no keyword occurs in the message, *)
(* in the order they are looked for, and the category each pair stands for *)
TypeCategories ==
    <<
      [words |-> {<<"s", "y", "n", "t", "a", "x">>},
       category |-> "syntax"],
      [words |-> {<<"t", "i", "m", "e", "o", "u", "t">>,
                  <<"p", "e", "r", "f", "o", "r", "m", "a", "n", "c", "e">>},
       category |-> "performance"],
      [words |-> {<<"c", "o", "n", "n", "e", "c", "t", "i", "o", "n">>,
                  <<"n", "e", "t", "w", "o", "r", "k">>},
       category |-> "network"],
      [words |-> {<<"m", "e", "m", "o", "r", "y">>,
                  <<"d", "i", "s", "k">>},
       category |-> "resource"],
      [words |-> {<<"p", "e", "r", "m", "i", "s", "s", "i", "o", "n">>,
                  <<"s", "e", "c", "u", "r", "i", "t", "y">>},
       category |-> "security"],
      [words |-> {<<"s", "q", "l">>,
                  <<"d", "a", "t", "a", "b", "a", "s", "e">>},
       category |-> "database"]
    >>

(* The pairs of TypeCategories with a word occurring in the type *)
TypeWordsOccurring(type) ==
    {e \in DOMAIN TypeCategories : \E w \in TypeCategories[e].words : Contains(type, w)}

(* C35: the category of a record is that of the first entry of the         *)
(* keyword-to-category table with a keyword occurring in the lower-cased   *)
(* raw message; when no entry has one it is the category of the first of   *)
(* syntax, timeout/performance, connection/network, memory/disk,           *)
(* permission/security, sql/database occurring in the type, and runtime    *)
(* when none of these occurs either.                                       *)
C35_CategoryByMessageThenType ==
    \A i \in DOMAIN processed.records :
        processed.error_messages[i].isText
          => LET entries == EntriesOccurring(processed.error_messages[i].chars)
                 words == TypeWordsOccurring(processed.records[i].type)
             IN  processed.records[i].category =
                    IF entries # {}
                    THEN _initialize_category_patterns[DeclaredFirst(entries)].category
                    ELSE IF words # {}
                    THEN TypeCategories[DeclaredFirst(words)].category
                    ELSE "runtime"

(* C35 witness: 'SQLException: connection timeout' was classified for java *)
(* as a sql_exception; keywords of three entries of the table occur in it  *)
(* and the category is that of the first, performance, not the one the     *)
(* type stands for                                                         *)
C35_Witness ==
    /\ processed.op = "process_error"
    /\ processed.error_messages = <<SqlTimeoutMessage>>
    /\ processed.language = "java"
    /\ processed.records[1].type = sql_exception
    /\ Cardinality(EntriesOccurring(SqlTimeoutMessage.chars)) = 3
    /\ processed.records[1].category = "performance"

(* The actions the severity of a record asks for *)
SeverityDriven(severity) ==
    CASE severity = CRITICAL -> <<"immediate_attention", "notify_team">>
      [] severity = HIGH -> <<"review_urgently">>
      [] OTHER -> <<>>

(* The words looked for in the type, in the order they are looked for, and *)
(* the pair of actions each asks for                                       *)
TypeDriven ==
    <<
      [word |-> <<"s", "y", "n", "t", "a", "x">>,
       actions |-> <<"check_code_syntax", "validate_variables">>],
      [word |-> <<"t", "y", "p", "e">>,
       actions |-> <<"validate_data_types", "check_variable_assignment">>],
      [word |-> <<"n", "u", "l", "l">>,
       actions |-> <<"add_null_checks", "validate_object_existence">>],
      [word |-> <<"m", "e", "m", "o", "r", "y">>,
       actions |-> <<"check_memory_usage", "review_resource_allocation">>],
      [word |-> <<"t", "i", "m", "e", "o", "u", "t">>,
       actions |-> <<"increase_timeout", "optimize_performance">>],
      [word |-> <<"p", "e", "r", "m", "i", "s", "s", "i", "o", "n">>,
       actions |-> <<"check_file_permissions", "validate_user_access">>]
    >>

(* The pairs of TypeDriven of which the word occurs in the type *)
TypeDrivenOccurring(type) ==
    {e \in DOMAIN TypeDriven : Contains(type, TypeDriven[e].word)}

(* The actions of both rule sets for a record *)
Contributed(record) ==
    SeverityDriven(record.severity)
      \o (IF TypeDrivenOccurring(record.type) = {} THEN <<>>
          ELSE TypeDriven[DeclaredFirst(TypeDrivenOccurring(record.type))].actions)

(* C36: the suggested actions of a classified message are the actions of   *)
(* its severity followed by the action pair of the first of syntax, type,  *)
(* null, memory, timeout, permission occurring in its type, if any;        *)
(* review_manually is among them exactly when both rule sets gave nothing, *)
(* and is then the only action.                                            *)
C36_ActionsFromBothRuleSets ==
    \A i \in DOMAIN processed.records :
        processed.error_messages[i].isText
          => LET actions == processed.records[i].suggested_actions
                 contributed == Contributed(processed.records[i])
             IN  /\ contributed # <<>> => actions = contributed
                 /\ contributed = <<>> => actions = <<"review_manually">>
                 /\ "review_manually" \in Range(actions) <=> contributed = <<>>

(* C36 witness: 'typeerror: x timeout' was classified for python; the      *)
(* severity critical and the type type_error both contributed, in that     *)
(* order, and review_manually is absent                                    *)
C36_Witness ==
    /\ processed.op = "process_error"
    /\ processed.error_messages = <<LowerCaseMessage>>
    /\ processed.language = "python"
    /\ processed.records[1].suggested_actions =
          <<"immediate_attention", "notify_team", "validate_data_types",
            "check_variable_assignment">>

(* C37: every record the classifier returns, for a message that is text or *)
(* not and for any language tag, has one of the severities critical, high, *)
(* medium and low: never info.                                             *)
C37_InfoNeverProduced ==
    \A i \in DOMAIN processed.records :
        processed.records[i].severity \in {CRITICAL, HIGH, MEDIUM, LOW}

(* C37 witness: 'info: cache miss' was classified; the keyword info is of  *)
(* the bucket low, and low is the severity                                 *)
C37_Witness ==
    /\ processed.op = "process_error"
    /\ processed.error_messages = <<InfoMessage>>
    /\ processed.records[1].severity = LOW

(* The last call of the caller was start_monitoring and it returned True;  *)
(* stop_monitoring has not been called since                               *)
Started ==
    /\ caller.pc = "returned"
    /\ caller.op = "start_monitoring"
    /\ caller.ret = "True"

(* The loop of performance_monitor is running in thread m *)
Looping(m) == monitors[m].pc \in {"test", "check", "sleep"}

(* C38: from the return of True by start_monitoring until stop_monitoring  *)
(* is called, the loop of performance_monitor is running in the thread the *)
(* agent holds.                                                            *)
C38_MonitorRunsWhileStarted ==
    Started => /\ agent.thread \in DOMAIN monitors
               /\ Looping(agent.thread)

====
